---- MODULE Spec2Model ----
(***************************************************************************)
(* Panel construction (code/2-cleaning-data.py), the data check, the model *)
(* scripts that read its output, the driver code/runall.py and the two     *)
(* weight scripts (crosswalk aggregation, shift-share panel).              *)
(*                                                                         *)
(* A data frame is a sequence of records (row order and repeated rows are  *)
(* kept); a frame whose keys a groupby has made unique is a set of records.*)
(* A numeric cell is a record [na, v]: na = TRUE is pandas' NaN.  Level    *)
(* values are integers counted in tenths, so the clip floor 0.1 is 1.      *)
(* A logarithm is kept by its argument: [kind |-> "fin", arg |-> x] is     *)
(* log(x) for x > 0, "ninf" is -inf (log of 0) and "nan" is NaN.           *)
(***************************************************************************)
EXTENDS Integers, Sequences, FiniteSets, TLC

VARIABLES
    ifrFile,          \* data/IFR_karol.csv, rows in file order
    klemsFile,        \* data/klems_growth_accounts_basic.csv, rows in file order
    ictwssFile,       \* data/ictwss_institutions.csv
    gdpFile,          \* data/eurostat[a]_gdp_nama_10_gdp.csv
    uneFile,          \* data/eurostat_employment_une_rt_a.csv
    weightsFile,      \* data/GM_industry_automation_weights_1980.csv
    crosswalkFile,    \* data/ind1990_to_nace2.csv
    stockFile,        \* data/IFR_operational_stock_2004_to_2023.xlsx, one row per label
    onDisk,           \* the names of the source files that exist in data/
    pc,               \* position in main() of the cleaning step and what follows it
    ifr,              \* frame ifr after lines 78-84
    klems_wide,       \* [cols, rows] after lines 87-100
    ictwss_baseline,  \* after lines 104-116
    gdp,              \* after lines 119-128
    une,              \* after lines 131-137
    df_merged,        \* df after the inner join, line 147
    df,               \* df after the left joins and the derived variables
    adj_mean,         \* line 163
    cleaned,          \* data/cleaned_data.csv: [written, cols, rows]
    eq1,              \* 3-equation1-baseline.py: sample and exit status
    eq2,              \* sample of step_coordination_model after line 52
    eq3,              \* sample of step_coverage_model after line 52
    eq4,              \* 6-equation4-industry-heterogeneity-coordination.py: exit status
    eq5,              \* sample of step_model (equation 5) after line 67
    dc,               \* 1-datacheck.py: what it loaded, listed and reported
    ra,               \* runall.py: the loop over scripts
    weights_nace2,    \* data/auto_weights_nace2.csv: [written, rows]
    panel             \* data/IFR_industry_exposure_shift_share_2004_2023.csv

vars == << ifrFile, klemsFile, ictwssFile, gdpFile, uneFile, weightsFile, crosswalkFile,
           stockFile, onDisk, pc, ifr, klems_wide, ictwss_baseline, gdp, une,
           df_merged, df, adj_mean, cleaned, eq1, eq2, eq3, eq4, eq5, dc, ra,
           weights_nace2, panel >>

inputs == << ifrFile, klemsFile, ictwssFile, gdpFile, uneFile, weightsFile,
             crosswalkFile, stockFile, onDisk >>

\* what the steps of the cleaning script and of the coverage scripts leave alone
aside == << eq1, eq2, eq4, dc, ra, weights_nace2, panel >>

----------------------------------------------------------------------------
(* Cells *)

NA == [na |-> TRUE, v |-> 0]

Num(x) == [na |-> FALSE, v |-> x]

NoStr == "<NaN>"

\* a raw CSV token: a number, or text that is no number
Tok(x) == [txt |-> "num", v |-> x]

Junk == [txt |-> "junk", v |-> 0]

\* pd.to_numeric(s, errors="coerce")
to_numeric(c) == IF c.txt = "num" THEN Num(c.v) ELSE NA

LogNaN == [kind |-> "nan", arg |-> 0]

LogNegInf == [kind |-> "ninf", arg |-> 0]

\* np.log of a cell
np_log(c) ==
    IF c.na THEN LogNaN
    ELSE IF c.v > 0 THEN [kind |-> "fin", arg |-> c.v]
    ELSE IF c.v = 0 THEN LogNegInf
    ELSE LogNaN

\* Series.replace(0, np.nan)
replace_zero_nan(c) == IF (~c.na) /\ c.v = 0 THEN NA ELSE c

\* Series.clip(lower=...)
clip_lower(c, lo) == IF (~c.na) /\ c.v < lo THEN Num(lo) ELSE c

----------------------------------------------------------------------------
(* Module-level tables of 2-cleaning-data.py *)

EU_ISO2 == {"AT", "BE", "BG", "CY", "CZ", "DE", "DK", "EE", "EL", "ES", "FI", "FR",
            "GR", "HR", "HU", "IE", "IT", "LT", "LU", "LV", "MT", "NL", "PL", "PT",
            "RO", "SE", "SI", "SK", "UK"}

IFR_TO_NACE ==
    [i \in {"10-12", "13-15", "16", "17-18", "19", "19-22", "20", "20-21", "20-23",
            "21", "22", "23", "24", "24-25", "25", "26", "26-27", "27", "28", "29",
            "29-30", "30", "D", "D_other"} |->
        CASE i = "10-12" -> "C10-C12"
          [] i = "13-15" -> "C13-C15"
          [] i \in {"16", "17-18"} -> "C16-C18"
          [] i = "19" -> "C19"
          [] i \in {"19-22", "20", "20-21", "20-23"} -> "C20-C21"
          [] i = "21" -> "C21"
          [] i \in {"22", "23"} -> "C22-C23"
          [] i \in {"24", "24-25", "25"} -> "C24-C25"
          [] i \in {"26", "26-27", "27"} -> "C26-C27"
          [] i = "28" -> "C28"
          [] i \in {"29", "29-30", "30"} -> "C29-C30"
          [] i = "D" -> "C"
          [] i = "D_other" -> "C31-C33"]

EUROSTAT_GEO_TO_ISO2 ==
    [g \in {"Austria", "Belgium", "Bulgaria", "Croatia", "Cyprus", "Czechia",
            "Czech Republic", "Denmark", "Estonia", "Finland", "France", "Germany",
            "Greece", "Hungary", "Ireland", "Italy", "Latvia", "Lithuania",
            "Luxembourg", "Malta", "Netherlands", "Poland", "Portugal", "Romania",
            "Slovakia", "Slovenia", "Spain", "Sweden", "United Kingdom"} |->
        CASE g = "Austria" -> "AT" [] g = "Belgium" -> "BE" [] g = "Bulgaria" -> "BG"
          [] g = "Croatia" -> "HR" [] g = "Cyprus" -> "CY" [] g = "Czechia" -> "CZ"
          [] g = "Czech Republic" -> "CZ" [] g = "Denmark" -> "DK"
          [] g = "Estonia" -> "EE" [] g = "Finland" -> "FI" [] g = "France" -> "FR"
          [] g = "Germany" -> "DE" [] g = "Greece" -> "EL" [] g = "Hungary" -> "HU"
          [] g = "Ireland" -> "IE" [] g = "Italy" -> "IT" [] g = "Latvia" -> "LV"
          [] g = "Lithuania" -> "LT" [] g = "Luxembourg" -> "LU" [] g = "Malta" -> "MT"
          [] g = "Netherlands" -> "NL" [] g = "Poland" -> "PL" [] g = "Portugal" -> "PT"
          [] g = "Romania" -> "RO" [] g = "Slovakia" -> "SK" [] g = "Slovenia" -> "SI"
          [] g = "Spain" -> "ES" [] g = "Sweden" -> "SE" [] g = "United Kingdom" -> "UK"]

ISO3_TO_ISO2 ==
    [c \in {"AUT", "BEL", "BGR", "HRV", "CYP", "CZE", "DNK", "EST", "FIN", "FRA",
            "DEU", "GRC", "HUN", "IRL", "ITA", "LVA", "LTU", "LUX", "MLT", "NLD",
            "POL", "PRT", "ROU", "SVK", "SVN", "ESP", "SWE", "GBR"} |->
        CASE c = "AUT" -> "AT" [] c = "BEL" -> "BE" [] c = "BGR" -> "BG"
          [] c = "HRV" -> "HR" [] c = "CYP" -> "CY" [] c = "CZE" -> "CZ"
          [] c = "DNK" -> "DK" [] c = "EST" -> "EE" [] c = "FIN" -> "FI"
          [] c = "FRA" -> "FR" [] c = "DEU" -> "DE" [] c = "GRC" -> "EL"
          [] c = "HUN" -> "HU" [] c = "IRL" -> "IE" [] c = "ITA" -> "IT"
          [] c = "LVA" -> "LV" [] c = "LTU" -> "LT" [] c = "LUX" -> "LU"
          [] c = "MLT" -> "MT" [] c = "NLD" -> "NL" [] c = "POL" -> "PL"
          [] c = "PRT" -> "PT" [] c = "ROU" -> "RO" [] c = "SVK" -> "SK"
          [] c = "SVN" -> "SI" [] c = "ESP" -> "ES" [] c = "SWE" -> "SE"
          [] c = "GBR" -> "UK"]

\* Series.map(table) with a default: a token with no entry gives the code DE
map_table_default(table, tok) == IF tok \in DOMAIN table THEN table[tok] ELSE "DE"

\* Series.map(table): a token with no entry gives NaN
map_table(table, tok) == IF tok \in DOMAIN table THEN table[tok] ELSE NoStr

vars_needed == {"LAB_QI", "VA_PYP", "CAP_QI", "CAPICT_QI", "CAPNICT_QI"}

\* the required columns with a country-level control and a moderator added
required_with_controls ==
    {"ln_hours", "ln_robots_lag1", "ln_va", "ln_cap", "ln_gdp", "adjcov"}

\* line 172
required == {"ln_hours", "ln_robots_lag1", "ln_va", "ln_cap"}

high_robot_nace == {"C26-C27", "C28", "C29-C30"}

IFR_FIRST_YEAR == 1993

TARGET_FIRST_YEAR == 1995

TARGET_LAST_YEAR == 2019

BASE_FIRST_YEAR == 1990

BASE_LAST_YEAR == 1995

\* 1-datacheck.py line 322: the first year of the window the data check reads
\* for baseline gaps (the last one is BASE_LAST_YEAR, 1995, in both scripts)
DATACHECK_BASE_FIRST_YEAR == 1993

LOG_FLOOR == 1

HIGH_COORD == 4

----------------------------------------------------------------------------
(* Exact arithmetic for means: a cell [na, n, d] is the fraction n/d in      *)
(* lowest terms with d > 0.                                                  *)

RECURSIVE Gcd(_, _)
Gcd(a, b) == IF b = 0 THEN (IF a < 0 THEN -a ELSE a) ELSE Gcd(b, a % b)

RatNA == [na |-> TRUE, n |-> 0, d |-> 1]

Rat(n, d) ==
    LET g == Gcd(IF n < 0 THEN -n ELSE n, d)
    IN  [na |-> FALSE, n |-> n \div g, d |-> d \div g]

\* sums and products are built over the least common denominator and after
\* cancelling, to keep the integers small
RatSub(a, b) ==
    LET g == Gcd(a.d, b.d)
    IN  IF a.na \/ b.na THEN RatNA
        ELSE Rat(a.n * (b.d \div g) - b.n * (a.d \div g), (a.d \div g) * b.d)

RatAdd(a, b) ==
    LET g == Gcd(a.d, b.d)
    IN  Rat(a.n * (b.d \div g) + b.n * (a.d \div g), (a.d \div g) * b.d)

RatGE(a, k) == a.n >= k * a.d

RatMul(a, b) ==
    LET g == Gcd(IF a.n < 0 THEN -a.n ELSE a.n, b.d)
        h == Gcd(IF b.n < 0 THEN -b.n ELSE b.n, a.d)
    IN  Rat((a.n \div g) * (b.n \div h), (a.d \div h) * (b.d \div g))

\* the sum of s[lo..hi], by halves
RECURSIVE RatSumRange(_, _, _)
RatSumRange(s, lo, hi) ==
    IF lo > hi THEN Rat(0, 1)
    ELSE IF lo = hi THEN s[lo]
    ELSE RatAdd(RatSumRange(s, lo, (lo + hi) \div 2),
                RatSumRange(s, (lo + hi) \div 2 + 1, hi))

RatSum(s) == RatSumRange(s, 1, Len(s))

\* Series.mean(): the mean of the non-missing cells, NaN when there is none
RatMean(s) ==
    LET ok == SelectSeq(s, LAMBDA c : ~c.na)
        t  == RatSum(ok)
    IN  IF ok = << >> THEN RatNA ELSE Rat(t.n, t.d * Len(ok))

----------------------------------------------------------------------------
(* Frame helpers *)

\* the rows of a sequence taken in order under a row function
MapSeq(s, f(_)) == [i \in 1..Len(s) |-> f(s[i])]

RECURSIVE SetToSeq(_)
SetToSeq(S) ==
    IF S = {} THEN << >>
    ELSE LET x == CHOOSE y \in S : TRUE IN << x >> \o SetToSeq(S \ {x})

\* the concatenation of ss[lo..hi], by halves
RECURSIVE FlattenRange(_, _, _)
FlattenRange(ss, lo, hi) ==
    IF lo > hi THEN << >>
    ELSE IF lo = hi THEN ss[lo]
    ELSE FlattenRange(ss, lo, (lo + hi) \div 2)
         \o FlattenRange(ss, (lo + hi) \div 2 + 1, hi)

Flatten(ss) == FlattenRange(ss, 1, Len(ss))

\* GroupBy.first() / aggfunc="first": the first non-missing cell, NaN when none
first_valid(s) ==
    LET ok == SelectSeq(s, LAMBDA c : ~c.na)
    IN  IF ok = << >> THEN NA ELSE Head(ok)

\* Series.std() by its square, the sample variance (ddof = 1): NaN for fewer
\* than two values
RatVar(s) ==
    LET m  == RatMean(s)
        sq == MapSeq(s, LAMBDA c : RatMul(RatSub(c, m), RatSub(c, m)))
        t  == RatSum(sq)
    IN  IF Len(s) < 2 THEN RatNA ELSE Rat(t.n, t.d * (Len(s) - 1))

\* the values of column col over a set of rows as a sequence, row by row: each
\* distinct value as many times as rows hold it
column_of(rows, col) ==
    Flatten(MapSeq(SetToSeq({r[col] : r \in rows}), LAMBDA v :
        [k \in 1..Cardinality({r \in rows : r[col] = v}) |-> v]))

\* DataFrame.merge(right, on=on, how=how): one output row for each pair of a
\* left row and a right row equal on the key columns, in the order of the left
\* rows, holding the columns of both; with how="left" a left row without a
\* match is kept with the right columns missing (blank).
merge(left, right, on, how, blank) ==
    LET out(l) ==
            LET m == {r \in right : \A c \in on : r[c] = l[c]}
            IN  IF m = {} THEN (IF how = "left" THEN << l @@ blank >> ELSE << >>)
                ELSE MapSeq(SetToSeq(m), LAMBDA r : l @@ r)
    IN  Flatten([i \in 1..Len(left) |-> out(left[i])])

----------------------------------------------------------------------------
(* 2-cleaning-data.py: the source files *)

IFR_PATH == "IFR_karol.csv"

KLEMS_PATH == "klems_growth_accounts_basic.csv"

ICTWSS_PATH == "ictwss_institutions.csv"

GDP_PATH_A == "eurostata_gdp_nama_10_gdp.csv"

GDP_PATH_B == "eurostat_gdp_nama_10_gdp.csv"

UNE_PATH == "eurostat_employment_une_rt_a.csv"

SourcePaths == {IFR_PATH, KLEMS_PATH, ICTWSS_PATH, GDP_PATH_A, GDP_PATH_B, UNE_PATH}

\* lines 119-121: the second name is tried when the first does not exist
gdp_path(disk) == IF GDP_PATH_A \in disk THEN GDP_PATH_A ELSE GDP_PATH_B

\* load_csv without the test of line 69: every path is read
load_csv_unchecked(path, disk) == TRUE

\* load_csv, lines 68-71: TRUE when the file is read, FALSE when
\* FileNotFoundError is raised
load_csv(path, disk) == path \in disk

----------------------------------------------------------------------------
(* 2-cleaning-data.py, main(): the frames of the five sources *)

\* shift(1) without the groupby: the value of the row before it in the frame
plain_shift(rows, i) == IF i = 1 THEN LogNaN ELSE rows[i - 1].ln_robots

\* GroupBy.shift(1) by (country_code, industry_code): the value of the row
\* before it in the frame's order among the rows of the same group
group_shift(rows, i) ==
    LET before == {j \in 1..(i - 1) :
                      /\ rows[j].country_code = rows[i].country_code
                      /\ rows[j].industry_code = rows[i].industry_code}
    IN  IF before = {} THEN LogNaN
        ELSE rows[CHOOSE j \in before : \A k \in before : k <= j].ln_robots

\* line 82
ln_robots_of(r) == np_log(replace_zero_nan(r.robot_wrkr_stock_95))

\* ifr_frame without the cut to the target window of line 84
ifr_frame_no_cut(file) ==
    LET read   == [i \in 1..Len(file) |-> file[i] @@ [idx |-> i]]
        kept   == SelectSeq(read, LAMBDA r :
                    /\ r.country_code \in EU_ISO2
                    /\ r.industry_code \in DOMAIN IFR_TO_NACE
                    /\ r.year >= IFR_FIRST_YEAR /\ r.year <= TARGET_LAST_YEAR)
        logged == MapSeq(kept, LAMBDA r : r @@ [ln_robots |-> ln_robots_of(r)])
    IN  [i \in 1..Len(logged) |->
            logged[i] @@ [ln_robots_lag1 |-> group_shift(logged, i)]]

\* lines 78-84; idx is the index label read_csv gives a row, its place in the file
ifr_frame(file) ==
    LET read   == [i \in 1..Len(file) |-> file[i] @@ [idx |-> i]]
        kept   == SelectSeq(read, LAMBDA r :
                    /\ r.country_code \in EU_ISO2
                    /\ r.industry_code \in DOMAIN IFR_TO_NACE
                    /\ r.year >= IFR_FIRST_YEAR /\ r.year <= TARGET_LAST_YEAR)
        logged == MapSeq(kept, LAMBDA r : r @@ [ln_robots |-> ln_robots_of(r)])
        lagged == [i \in 1..Len(logged) |->
                      logged[i] @@ [ln_robots_lag1 |-> group_shift(logged, i)]]
    IN  SelectSeq(lagged, LAMBDA r : r.year >= TARGET_FIRST_YEAR)

\* lines 88-94: the rows pivot_table groups
klems_long(file) ==
    LET typed == MapSeq(file, LAMBDA r :
                     [geo_code |-> r.geo_code, nace_r2_code |-> r.nace_r2_code,
                      var |-> r.var, year |-> to_numeric(r.year),
                      value |-> to_numeric(r.value), country_code |-> r.geo_code])
    IN  SelectSeq(typed, LAMBDA r :
            /\ (r.geo_code \in EU_ISO2 \/ r.geo_code = "EL")
            /\ r.var \in vars_needed)

\* lines 95-100: pivot_table(index=[country_code, nace_r2_code, year],
\* columns="var", values="value", aggfunc="first").  A group with a missing key
\* is left out, a (key, var) group without a value is dropped, and so is a key
\* or a column left without any value.
pivot_first(long) ==
    LET keyed == SelectSeq(long, LAMBDA r : ~r.year.na)
        cell(c, n, y, v) ==
            first_valid(MapSeq(SelectSeq(keyed, LAMBDA r :
                            /\ r.country_code = c /\ r.nace_r2_code = n
                            /\ r.year.v = y /\ r.var = v),
                        LAMBDA r : r.value))
        keys == {<< keyed[i].country_code, keyed[i].nace_r2_code, keyed[i].year.v >> :
                    i \in 1..Len(keyed)}
        wide == {[country_code |-> k[1], nace_r2_code |-> k[2], year |-> k[3]]
                 @@ [v \in vars_needed |-> cell(k[1], k[2], k[3], v)] : k \in keys}
        rows == {w \in wide : \E v \in vars_needed : ~w[v].na}
    IN  [cols |-> {v \in vars_needed : \E w \in rows : ~w[v].na},
         rows |-> rows]

\* lines 108-110
safe_mean(s) ==
    RatMean(MapSeq(s, LAMBDA c :
        IF to_numeric(c).na THEN RatNA ELSE Rat(to_numeric(c).v, 1)))

\* ictwss_frame grouped by country and year: one mean for each year of the window
ictwss_frame_by_year(file) ==
    LET coded == MapSeq(file, LAMBDA r :
                     r @@ [country_code |-> map_table(ISO3_TO_ISO2, r.iso3)])
        eu    == SelectSeq(coded, LAMBDA r : r.country_code \in EU_ISO2)
        base_years == SelectSeq(eu, LAMBDA r :
                          r.year >= BASE_FIRST_YEAR /\ r.year <= BASE_LAST_YEAR)
        of(c, y) == SelectSeq(base_years, LAMBDA r : r.country_code = c /\ r.year = y)
    IN  {[country_code |-> k[1],
          AdjCov |-> safe_mean(MapSeq(of(k[1], k[2]), LAMBDA r : r.AdjCov)),
          Coord  |-> safe_mean(MapSeq(of(k[1], k[2]), LAMBDA r : r.Coord))] :
            k \in {<< base_years[i].country_code, base_years[i].year >> :
                      i \in 1..Len(base_years)}}

\* lines 105-116
ictwss_frame(file) ==
    LET coded == MapSeq(file, LAMBDA r :
                     r @@ [country_code |-> map_table(ISO3_TO_ISO2, r.iso3)])
        eu    == SelectSeq(coded, LAMBDA r : r.country_code \in EU_ISO2)
        base_years == SelectSeq(eu, LAMBDA r :
                          r.year >= BASE_FIRST_YEAR /\ r.year <= BASE_LAST_YEAR)
        of(c) == SelectSeq(base_years, LAMBDA r : r.country_code = c)
    IN  {[country_code |-> c,
          AdjCov |-> safe_mean(MapSeq(of(c), LAMBDA r : r.AdjCov)),
          Coord  |-> safe_mean(MapSeq(of(c), LAMBDA r : r.Coord))] :
            c \in {base_years[i].country_code : i \in 1..Len(base_years)}}

\* group_first without the groupby: every row of the source stays
group_first_all_rows(rows) ==
    LET keyed == SelectSeq(rows, LAMBDA r : ~r.year.na)
    IN  {[country_code |-> keyed[i].country_code, year |-> keyed[i].year.v,
          value |-> keyed[i].value] : i \in 1..Len(keyed)}

\* groupby([country_code, year])[col].first().reset_index()
group_first(rows) ==
    LET keyed == SelectSeq(rows, LAMBDA r : ~r.year.na)
    IN  {[country_code |-> k[1], year |-> k[2],
          value |-> first_valid(MapSeq(SelectSeq(keyed, LAMBDA r :
                        r.country_code = k[1] /\ r.year.v = k[2]),
                      LAMBDA r : r.value))] :
            k \in {<< keyed[i].country_code, keyed[i].year.v >> : i \in 1..Len(keyed)}}

\* lines 123-128 (col = "gdp") and 132-137 (col = "unemployment")
eurostat_frame(file, col) ==
    LET typed == MapSeq(file, LAMBDA r :
                     [country_code |-> map_table(EUROSTAT_GEO_TO_ISO2, r.geo),
                      year |-> to_numeric(r.TIME_PERIOD),
                      value |-> to_numeric(r.OBS_VALUE)])
        named == SelectSeq(typed, LAMBDA r : r.country_code # NoStr)
        eu    == SelectSeq(named, LAMBDA r : r.country_code \in EU_ISO2)
    IN  {[country_code |-> r.country_code, year |-> r.year] @@ (col :> r.value) :
            r \in group_first(eu)}

----------------------------------------------------------------------------
(* 2-cleaning-data.py, main(): the joins and the derived variables *)

\* inner_join with how="left"
inner_join_as_left(i, k) ==
    LET crossed == MapSeq(i, LAMBDA r :
                       [f \in DOMAIN r \ {"idx"} |-> r[f]]
                       @@ [nace_r2_code |-> map_table(IFR_TO_NACE, r.industry_code)])
        mapped  == SelectSeq(crossed, LAMBDA r : r.nace_r2_code # NoStr)
    IN  merge(mapped, k.rows, {"country_code", "nace_r2_code", "year"}, "left",
              [v \in vars_needed |-> NA])

\* lines 140-147: the crosswalk column and the inner join with klems_wide; the
\* merged frame gets a new index
inner_join(i, k) ==
    LET crossed == MapSeq(i, LAMBDA r :
                       [f \in DOMAIN r \ {"idx"} |-> r[f]]
                       @@ [nace_r2_code |-> map_table(IFR_TO_NACE, r.industry_code)])
        mapped  == SelectSeq(crossed, LAMBDA r : r.nace_r2_code # NoStr)
    IN  merge(mapped, k.rows, {"country_code", "nace_r2_code", "year"}, "inner",
              [v \in vars_needed |-> NA])

\* lines 150-152
add_country_level(d, g, u, b) ==
    LET with_gdp == merge(d, g, {"country_code", "year"}, "left", [gdp |-> NA])
        with_une == merge(with_gdp, u, {"country_code", "year"}, "left",
                          [unemployment |-> NA])
    IN  merge(with_une, b, {"country_code"}, "left", [AdjCov |-> RatNA, Coord |-> RatNA])

\* line 163
adjcov_mean(d) == RatMean(MapSeq(d, LAMBDA r : r.AdjCov))

\* line 165 with (coord >= 4).astype(int) alone: 0 for a missing coord
high_coord_zero_for_missing(coord) ==
    IF coord.na THEN Num(0) ELSE IF RatGE(coord, HIGH_COORD) THEN Num(1) ELSE Num(0)

\* line 165, and 4-equation2 line 51
high_coord_of(coord) ==
    IF coord.na THEN NA ELSE IF RatGE(coord, HIGH_COORD) THEN Num(1) ELSE Num(0)

\* lines 155-169
build_vars(d) ==
    LET m == adjcov_mean(d)
    IN  MapSeq(d, LAMBDA r : r @@
            [ln_hours |-> np_log(clip_lower(r.LAB_QI, LOG_FLOOR)),
             ln_va    |-> np_log(clip_lower(r.VA_PYP, LOG_FLOOR)),
             ln_cap   |-> np_log(clip_lower(r.CAP_QI, LOG_FLOOR)),
             ln_gdp   |-> np_log(clip_lower(r.gdp, LOG_FLOOR)),
             adjcov   |-> r.AdjCov,
             coord    |-> r.Coord,
             adjcov_centered |-> RatSub(r.AdjCov, m),
             high_coord |-> high_coord_of(r.Coord),
             high_robot_industry |-> IF r.nace_r2_code \in high_robot_nace THEN 1 ELSE 0])

\* Series.isna() of a column of the panel
is_missing(r, c) ==
    CASE c = "ln_hours" -> r.ln_hours.kind = "nan"
      [] c = "ln_robots_lag1" -> r.ln_robots_lag1.kind = "nan"
      [] c = "ln_va" -> r.ln_va.kind = "nan"
      [] c = "ln_cap" -> r.ln_cap.kind = "nan"
      [] c = "ln_gdp" -> r.ln_gdp.kind = "nan"
      [] c = "unemployment" -> r.unemployment.na
      [] c = "adjcov" -> r.adjcov.na
      [] c = "coord" -> r.coord.na

dropna(d, cols) == SelectSeq(d, LAMBDA r : \A c \in cols : ~is_missing(r, c))

\* lines 172-177
final_rows(d) ==
    MapSeq(dropna(d, required), LAMBDA r : r @@
        [entity |-> r.country_code \o "_" \o r.industry_code, year_int |-> r.year])

\* the columns of klems_wide that lines 155-157 read
klems_read == {"LAB_QI", "VA_PYP", "CAP_QI"}

cols_out == {"country_code", "industry_code", "nace_r2_code", "year", "entity",
             "year_int", "ln_hours", "ln_robots", "ln_robots_lag1", "ln_va", "ln_cap",
             "ln_gdp", "unemployment", "adjcov", "coord", "adjcov_centered",
             "high_coord", "high_robot_industry", "robot_wrkr_stock_95", "LAB_QI",
             "VA_PYP", "CAP_QI"}

NoFile == [written |-> FALSE, cols |-> {}, rows |-> << >>]

\* an output file of the weight scripts that has not been written
NoOutput == [written |-> FALSE, rows |-> << >>]

\* main() from the five files to the rows it writes
clean_rows(fi, fk, fc, fg, fu) ==
    final_rows(build_vars(add_country_level(
        inner_join(ifr_frame(fi), pivot_first(klems_long(fk))),
        eurostat_frame(fg, "gdp"), eurostat_frame(fu, "unemployment"),
        ictwss_frame(fc))))

----------------------------------------------------------------------------
(* _equation_utils.py and the coverage model steps *)

\* get_controls
get_controls(raw) ==
    {"ln_va", "ln_cap"}
    \cup (IF "ln_gdp" \in raw.cols /\ (\E i \in 1..Len(raw.rows) : raw.rows[i].ln_gdp.kind # "nan")
          THEN {"ln_gdp"} ELSE {})
    \cup (IF "unemployment" \in raw.cols /\ (\E i \in 1..Len(raw.rows) : ~raw.rows[i].unemployment.na)
          THEN {"unemployment"} ELSE {})

\* DataFrame.drop_duplicates(subset=["entity", "year_int"]): the first row of each key
drop_duplicates(d) ==
    LET firstOf(i) == \A j \in 1..(i - 1) :
                          ~(d[j].entity = d[i].entity /\ d[j].year_int = d[i].year_int)
        keep == SelectSeq([i \in 1..Len(d) |-> i], firstOf)
    IN  [k \in 1..Len(keep) |-> d[keep[k]]]

\* prepare_panel: the rows are unique by (entity, year_int) and sorted by that
\* index, so the panel is the set of its rows
prepare_panel(d, require) ==
    LET kept == drop_duplicates(dropna(d, require))
    IN  {kept[i] : i \in 1..Len(kept)}

\* 5-equation3 lines 43-47 and 7-equation5 lines 57-62
coverage_sample(raw) ==
    LET p == prepare_panel(raw.rows, required \cup {"adjcov"})
    IN  {r \in p : \A c \in get_controls(raw) : ~is_missing(r, c)}

set_mean_adjcov(rows) == RatMean(column_of(rows, "adjcov"))

\* 5-equation3 lines 49-51 and 7-equation5 lines 64-66
with_centered(raw, sample) ==
    IF "adjcov_centered" \notin raw.cols
    THEN LET m == set_mean_adjcov(sample)
         IN  {r @@ [adjcov_centered |-> RatSub(r.adjcov, m)] : r \in sample}
    ELSE sample

\* step_coverage_model up to line 52
step_coverage_model(raw) == with_centered(raw, coverage_sample(raw))

\* step_model of equation 5 up to line 67
step_model_sample(raw) ==
    {r \in with_centered(raw, coverage_sample(raw)) : ~r.adjcov_centered.na}

\* line 69 and line 80
industries(sample) == {r.nace_r2_code : r \in sample}

df_ind(sample, ind) == {r \in sample : r.nace_r2_code = ind}

\* pd.read_csv(CLEANED_PATH): the frame a script holds after reading the file
read_csv(file) == [cols |-> file.cols, rows |-> file.rows]

NoFrame == [cols |-> {}, rows |-> << >>]

\* A frame is held by reference: frames is the sequence of the frame objects
\* made so far and a reference is a position in it.

\* prepare_panel with dropna(subset=require, inplace=True) in line 51: the
\* object passed in loses the rows
prepare_panel_inplace(frames, ref, require) ==
    LET dropped == [frames EXCEPT ![ref].rows = dropna(frames[ref].rows, require)]
    IN  Append(dropped, [dropped[ref] EXCEPT !.rows = drop_duplicates(dropped[ref].rows)])

\* prepare_panel, lines 51-54, on the object at ref: dropna(...).copy() of line
\* 51 makes a new object and binds the local name df to it, and
\* drop_duplicates, set_index and sort_index of lines 52-54 each return a new
\* object as well (the last three as one object here, the panel that is
\* returned)
prepare_panel_frames(frames, ref, require) ==
    LET dropped == Append(frames, [frames[ref] EXCEPT !.rows = dropna(frames[ref].rows, require)])
    IN  Append(dropped, [dropped[Len(dropped)] EXCEPT
                            !.rows = drop_duplicates(dropped[Len(dropped)].rows)])

\* step_diagnostics(df) of the equation scripts, which is log_diagnostics(df),
\* lines 106-150, by the object df of main() after the call (what it logs is
\* not kept).  run_diagnostics passes df_full to prepare_panel three times
\* (lines 66-68); everything else in the two functions reads df_full or
\* rebinds the names of the three samples to what dropna and drop_duplicates
\* return (lines 70-79, 88-90, 126-136).
step_diagnostics(df_full) ==
    LET baseline == prepare_panel_frames(<< df_full >>, 1, required)
        coverage == prepare_panel_frames(baseline, 1, required \cup {"adjcov"})
        coord    == prepare_panel_frames(coverage, 1, required \cup {"coord"})
    IN  coord[1]

\* 3-equation1-baseline.py, lines 30-31 and 34-35: the estimation sample
equation1_sample(raw) == prepare_panel(raw.rows, required)

\* 4-equation2 lines 42-46
coordination_sample(raw) ==
    LET p == prepare_panel(raw.rows, required \cup {"coord"})
    IN  {r \in p : \A c \in get_controls(raw) : ~is_missing(r, c)}

\* 4-equation2 lines 49-52: the column is computed when the file lacks it, and
\* the rows without a value are dropped
step_coordination_model(raw) ==
    LET sample == coordination_sample(raw)
        built  == IF "high_coord" \notin raw.cols
                  THEN {r @@ [high_coord |-> high_coord_of(r.coord)] : r \in sample}
                  ELSE sample
    IN  {r \in built : ~r.high_coord.na}

NotRun == [ran |-> FALSE, seen |-> NoFrame, rows |-> {}]

----------------------------------------------------------------------------
(* 7-equation5-industry-heterogeneity-coverage.py, step_model: the loop *)

MIN_COUNTRIES == 5

MIN_OBS == 50

\* line 96: the threshold 1e-10, adjcov being counted in units of 1e-10
STD_EPS == 1

\* the NACE codes of IFR_TO_NACE in the order sorted() gives strings
NACE_ORDER ==
    << "C", "C10-C12", "C13-C15", "C16-C18", "C19", "C20-C21", "C21", "C22-C23",
       "C24-C25", "C26-C27", "C28", "C29-C30", "C31-C33" >>

\* line 69
sorted_industries(sample) == SelectSeq(NACE_ORDER, LAMBDA n : n \in industries(sample))

\* line 81
n_obs(d) == Cardinality(d)

\* line 82
n_countries(d) == Cardinality({r.country_code : r \in d})

\* line 84 with <= for <
too_few_countries_incl(d) == n_countries(d) <= MIN_COUNTRIES

\* line 84
too_few_countries(d) == n_countries(d) < MIN_COUNTRIES

\* line 90
too_few_obs(d) == n_obs(d) < MIN_OBS

\* line 96 with 0 for 1e-10: no standard deviation is below it
no_variation_below_zero(d) ==
    LET v == RatVar(column_of(d, "adjcov_centered"))
    IN  (~v.na) /\ v.n < 0

\* line 96: std() < 1e-10, compared by the squares; a NaN std is not below
no_variation(d) ==
    LET v == RatVar(column_of(d, "adjcov_centered"))
    IN  (~v.na) /\ v.n < STD_EPS * STD_EPS * v.d

Eq5Start == [results |-> << >>, skipped |-> << >>, failed |-> << >>]

\* the loop of lines 79-153 where a failure of the estimator ends the loop
RECURSIVE for_ind_break(_, _, _, _)
for_ind_break(sample, inds, raised, acc) ==
    IF inds = << >> THEN acc
    ELSE LET ind == Head(inds)
             d   == df_ind(sample, ind)
             skip(why) == [acc EXCEPT !.skipped =
                              Append(@, [industry |-> ind, reason |-> why, n_obs |-> n_obs(d)])]
         IN  IF too_few_countries(d)
             THEN for_ind_break(sample, Tail(inds), raised,
                      skip("only " \o ToString(n_countries(d)) \o " countries"))
             ELSE IF too_few_obs(d)
             THEN for_ind_break(sample, Tail(inds), raised,
                      skip("only " \o ToString(n_obs(d)) \o " obs"))
             ELSE IF no_variation(d)
             THEN for_ind_break(sample, Tail(inds), raised, skip("no variation in moderator"))
             ELSE IF ind \in DOMAIN raised
             THEN [acc EXCEPT !.failed =
                      Append(@, [industry |-> ind, reason |-> raised[ind], n_obs |-> n_obs(d)])]
             ELSE for_ind_break(sample, Tail(inds), raised,
                      [acc EXCEPT !.results =
                          Append(@, [industry |-> ind, n_countries |-> n_countries(d)])])

\* lines 79-153: the loop over the sorted industries.  raised gives the text of
\* the exception run_panelols raises for an industry, for the industries where
\* it raises; a result row is kept by the fields that do not come from the
\* estimator.
RECURSIVE for_ind(_, _, _, _)
for_ind(sample, inds, raised, acc) ==
    IF inds = << >> THEN acc
    ELSE LET ind == Head(inds)
             d   == df_ind(sample, ind)
             skip(why) == [acc EXCEPT !.skipped =
                              Append(@, [industry |-> ind, reason |-> why, n_obs |-> n_obs(d)])]
         IN  IF too_few_countries(d)
             THEN for_ind(sample, Tail(inds), raised,
                      skip("only " \o ToString(n_countries(d)) \o " countries"))
             ELSE IF too_few_obs(d)
             THEN for_ind(sample, Tail(inds), raised,
                      skip("only " \o ToString(n_obs(d)) \o " obs"))
             ELSE IF no_variation(d)
             THEN for_ind(sample, Tail(inds), raised, skip("no variation in moderator"))
             ELSE IF ind \in DOMAIN raised
             THEN for_ind(sample, Tail(inds), raised,
                      [acc EXCEPT !.failed =
                          Append(@, [industry |-> ind, reason |-> raised[ind],
                                     n_obs |-> n_obs(d)])])
             ELSE for_ind(sample, Tail(inds), raised,
                      [acc EXCEPT !.results =
                          Append(@, [industry |-> ind, n_countries |-> n_countries(d)])])

\* the texts of the exceptions run_panelols raises: the one of line 59 of
\* _equation_utils.py and one of the estimator
ExceptionTexts ==
    {"linearmodels not installed. Run: pip install linearmodels",
     "exog does not have full column rank"}

\* step_model with the failed list left empty
step_model_no_failed(raw, raised) ==
    LET sample == step_model_sample(raw)
    IN  [ran |-> TRUE, seen |-> raw, rows |-> sample]
        @@ [for_ind(sample, sorted_industries(sample), raised, Eq5Start)
               EXCEPT !.failed = << >>]

\* step_model: the sample and the three lists after the loop
step_model(raw, raised) ==
    LET sample == step_model_sample(raw)
    IN  [ran |-> TRUE, seen |-> raw, rows |-> sample]
        @@ for_ind(sample, sorted_industries(sample), raised, Eq5Start)

Eq5NotRun == NotRun @@ Eq5Start

----------------------------------------------------------------------------
(* 1-datacheck.py *)

ISO2_TO_ISO3 ==
    [c \in EU_ISO2 |->
        CASE c = "AT" -> "AUT" [] c = "BE" -> "BEL" [] c = "BG" -> "BGR"
          [] c = "CY" -> "CYP" [] c = "CZ" -> "CZE" [] c = "DE" -> "DEU"
          [] c = "DK" -> "DNK" [] c = "EE" -> "EST" [] c = "EL" -> "GRC"
          [] c = "ES" -> "ESP" [] c = "FI" -> "FIN" [] c = "FR" -> "FRA"
          [] c = "GR" -> "GRC" [] c = "HR" -> "HRV" [] c = "HU" -> "HUN"
          [] c = "IE" -> "IRL" [] c = "IT" -> "ITA" [] c = "LT" -> "LTU"
          [] c = "LU" -> "LUX" [] c = "LV" -> "LVA" [] c = "MT" -> "MLT"
          [] c = "NL" -> "NLD" [] c = "PL" -> "POL" [] c = "PT" -> "PRT"
          [] c = "RO" -> "ROU" [] c = "SE" -> "SWE" [] c = "SI" -> "SVN"
          [] c = "SK" -> "SVK" [] c = "UK" -> "GBR"]

\* lines 98 and 321
eu_iso3 == {ISO2_TO_ISO3[c] : c \in EU_ISO2}

\* load_safe, lines 56-62: None (FALSE) for a path that does not exist
load_safe(path, disk) == path \in disk

\* lines 77-86: which of the sources the data check holds after loading
dc_load(disk) ==
    [ictwss |-> load_safe(ICTWSS_PATH, disk),
     ifr    |-> load_safe(IFR_PATH, disk),
     klems  |-> load_safe(KLEMS_PATH, disk),
     gdp    |-> load_safe(GDP_PATH_A, disk) \/ load_safe(GDP_PATH_B, disk),
     une    |-> load_safe(UNE_PATH, disk)]

\* lines 174-175 and 190-191: int(df[TIME_PERIOD].min()) and
\* df[TIME_PERIOD].astype(int) raise ValueError for a file without rows or
\* with a TIME_PERIOD cell that is empty or no number
eurostat_years_ok(file) ==
    /\ file # << >>
    /\ \A i \in 1..Len(file) : ~to_numeric(file[i].TIME_PERIOD).na

\* line 263
cleaned_nace(file) ==
    SelectSeq(NACE_ORDER, LAMBDA n : \E i \in 1..Len(file.rows) : file.rows[i].nace_r2_code = n)

\* line 288: the rows of an industry with the coverage variables present
sub_cov(file, nace) ==
    SelectSeq(dropna(file.rows, required \cup {"adjcov"}), LAMBDA r : r.nace_r2_code = nace)

\* Series.std() >= 1e-10 by the squares; a NaN std is not above the threshold
std_at_least_eps(s) ==
    LET v == RatVar(s)
    IN  (~v.na) /\ v.n >= STD_EPS * STD_EPS * v.d

\* lines 289-291
usable_in_eq5(file, nace) ==
    LET sub == sub_cov(file, nace)
    IN  /\ Cardinality({sub[i].country_code : i \in 1..Len(sub)}) >= MIN_COUNTRIES
        /\ Len(sub) >= MIN_OBS
        /\ std_at_least_eps(MapSeq(sub, LAMBDA r : r.adjcov))

\* lines 276-292: usable_eq5
usable_eq5(file) == SelectSeq(cleaned_nace(file), LAMBDA n : usable_in_eq5(file, n))

\* lines 322-325: a row of the 1993-1995 baseline of an EU country with an
\* AdjCov or Coord cell that is no number
baseline_gap(file) ==
    \E i \in 1..Len(file) :
        /\ file[i].year >= DATACHECK_BASE_FIRST_YEAR /\ file[i].year <= BASE_LAST_YEAR
        /\ file[i].iso3 \in eu_iso3
        /\ to_numeric(file[i].AdjCov).na \/ to_numeric(file[i].Coord).na

\* lines 315-326: the issues of the summary
issues(loaded, file) ==
    (IF ~loaded.gdp THEN << "Eurostat GDP missing" >> ELSE << >>)
    \o (IF ~loaded.une THEN << "Eurostat Unemployment missing" >> ELSE << >>)
    \o (IF loaded.ictwss /\ baseline_gap(file)
        THEN << "ICTWSS: some EU countries missing AdjCov/Coord in 1993-1995 baseline" >>
        ELSE << >>)

DatacheckNotRun ==
    [ran |-> FALSE, exit |-> 0, when |-> "idle", loaded |-> dc_load({}),
     read_cleaned |-> FALSE, usable_eq5 |-> << >>, issues |-> << >>, no_gaps |-> FALSE]

\* the whole script.  when is the position of the cleaning step as the script
\* runs.  A ValueError in section 4 ends it with status 1 before the industry
\* lists and the summary.
datacheck(disk, fc, fg, fu, file, when) ==
    LET loaded == dc_load(disk)
        crash  == \/ loaded.gdp /\ ~eurostat_years_ok(fg)
                  \/ loaded.une /\ ~eurostat_years_ok(fu)
        found  == file.written /\ "nace_r2_code" \in file.cols
        iss    == issues(loaded, fc)
    IN  IF crash
        THEN [DatacheckNotRun EXCEPT !.ran = TRUE, !.exit = 1, !.when = when,
                                     !.loaded = loaded]
        ELSE [ran |-> TRUE, exit |-> 0, when |-> when, loaded |-> loaded,
              read_cleaned |-> found,
              usable_eq5 |-> IF found THEN usable_eq5(file) ELSE << >>,
              issues |-> iss, no_gaps |-> iss = << >>]

----------------------------------------------------------------------------
(* 2-crosswalk_ind1990_to_nace2.py *)

\* A row of GM_industry_automation_weights_1980.csv is [ind1990,
\* replaceability_ind, w_ind], a row of ind1990_to_nace2.csv is [ind1990, nace2].
\* An ind1990 cell is its stripped text (NoStr for an empty cell) and whether
\* blanks lead it.
Ind(text, blanks) == [text |-> text, blanks |-> blanks]

\* lines 15-16: astype(str).str.strip()
strip_ind(rows) == MapSeq(rows, LAMBDA r : [r EXCEPT !.ind1990.blanks = FALSE])

\* the ind1990 texts that hold "n/a" in some case
NA_INDUSTRIES == {"n/a", "N/A (not classified)"}

\* lines 19 and 42: .str.lower().str.contains("n/a")
contains_na(ind) == ind.text \in NA_INDUSTRIES

\* line 22: w.merge(cw, on="ind1990", how="inner")
crosswalk_merge(w, cw) ==
    merge(SelectSeq(strip_ind(w), LAMBDA r : ~contains_na(r.ind1990)),
          {strip_ind(cw)[j] : j \in 1..Len(cw)}, {"ind1990"}, "inner", << >>)

NACE2_FIRST == 10

NACE2_LAST == 33

\* lines 26-27: nace2_num, and the manufacturing divisions kept
manufacturing(wm) ==
    SelectSeq(MapSeq(wm, LAMBDA r : r @@ [nace2_num |-> to_numeric(r.nace2)]),
              LAMBDA r : /\ ~r.nace2_num.na
                         /\ r.nace2_num.v >= NACE2_FIRST
                         /\ r.nace2_num.v <= NACE2_LAST)

\* Series.sum() of integers, by halves
RECURSIVE IntSumRange(_, _, _)
IntSumRange(s, lo, hi) ==
    IF lo > hi THEN 0
    ELSE IF lo = hi THEN s[lo]
    ELSE IntSumRange(s, lo, (lo + hi) \div 2) + IntSumRange(s, (lo + hi) \div 2 + 1, hi)

IntSum(s) == IntSumRange(s, 1, Len(s))

\* lines 31-36 without the test of line 34: 0/0 is NaN
wavg_always_weighted(group) ==
    LET ok  == SelectSeq(group, LAMBDA r : ~r.replaceability_ind.na)
        wgt == IntSum(MapSeq(group, LAMBDA r : r.w_ind))
    IN  IF wgt = 0 THEN RatNA
        ELSE Rat(IntSum(MapSeq(ok, LAMBDA r : r.replaceability_ind.v * r.w_ind)), wgt)

\* lines 31-36: sums and the mean skip NaN; the weights are not negative
wavg(group) ==
    LET ok  == SelectSeq(group, LAMBDA r : ~r.replaceability_ind.na)
        wgt == IntSum(MapSeq(group, LAMBDA r : r.w_ind))
    IN  IF wgt = 0
        THEN RatMean(MapSeq(group, LAMBDA r :
                 IF r.replaceability_ind.na THEN RatNA ELSE Rat(r.replaceability_ind.v, 1)))
        ELSE Rat(IntSum(MapSeq(ok, LAMBDA r : r.replaceability_ind.v * r.w_ind)), wgt)

\* lines 38-47: one row for each nace2_num, in ascending order
crosswalk_rows(w, cw) ==
    LET wm == manufacturing(crosswalk_merge(w, cw))
        g(k) == SelectSeq(wm, LAMBDA r : r.nace2_num.v = k)
        keys == SelectSeq([i \in 1..(NACE2_LAST - NACE2_FIRST + 1) |-> NACE2_FIRST + i - 1],
                          LAMBDA k : g(k) # << >>)
    IN  MapSeq(keys, LAMBDA k :
            [nace2 |-> k,
             auto_weight_nace2 |-> wavg(g(k)),
             n_sources |-> Cardinality({g(k)[i].ind1990 : i \in 1..Len(g(k))}),
             w_ind_sum |-> IntSum(MapSeq(g(k), LAMBDA r : r.w_ind))])

----------------------------------------------------------------------------
(* 1-share-shift-weights.py *)

\* lines 35-42: the industry weights
weights(w) ==
    SelectSeq(MapSeq(w, LAMBDA r : [industry_id |-> r.ind1990,
                                   auto_weight |-> r.replaceability_ind]),
              LAMBDA r : /\ r.industry_id.text # NoStr
                         /\ ~r.auto_weight.na
                         /\ ~contains_na(r.industry_id))

\* The first sheet of IFR_operational_stock_2004_to_2023.xlsx below its header
\* row is [headers, rows]: the headers after the label column, and rows
\* [label, stock] with a cell for each header.  A label is its stripped
\* text, the part of it before the first "-", and whether it has a "-".
Label(text, head, dash) == [text |-> text, head |-> head, dash |-> dash]

YEAR_COL_FIRST == 1900

YEAR_COL_LAST == 2100

\* lines 54-56
year_cols(file) ==
    SelectSeq(file.headers, LAMBDA c : c >= YEAR_COL_FIRST /\ c <= YEAR_COL_LAST)

\* line 51: the first row below the header is skipped
below_first(rows) == IF rows = << >> THEN << >> ELSE Tail(rows)

\* lines 65-74: melt gives the rows of the first year column, then those of the
\* second, ...; rows without a number are dropped
melt(file) ==
    LET body == below_first(file.rows)
        long == Flatten(MapSeq(year_cols(file), LAMBDA y :
                    MapSeq(body, LAMBDA r :
                        [label |-> r.label, year |-> y,
                         robot_stock |-> to_numeric(r.stock[y])])))
    IN  SelectSeq(long, LAMBDA r : ~r.robot_stock.na)

\* the two-capital-letter texts
ISO2_SHAPED == {"DE", "SE", "ZA"}

\* line 78: ^([A-Z]{2})-
iso2_of(label) == IF label.dash /\ label.head \in ISO2_SHAPED THEN label.head ELSE NoStr

\* line 79: the ISO2 prefix, else the whole label
country_of(label) == IF iso2_of(label) # NoStr THEN iso2_of(label) ELSE label.text

\* line 85: drop_duplicates() over all three columns: the first of equal rows
drop_equal_rows(rows) ==
    LET firstOf(i) == \A j \in 1..(i - 1) : rows[j] # rows[i]
        keep == SelectSeq([i \in 1..Len(rows) |-> i], firstOf)
    IN  [k \in 1..Len(keep) |-> rows[keep[k]]]

\* lines 77-85
ifr_long(file) ==
    LET kept == SelectSeq(melt(file), LAMBDA r : iso2_of(r.label) # NoStr \/ r.label.dash)
    IN  drop_equal_rows(MapSeq(kept, LAMBDA r :
            [country |-> country_of(r.label), year |-> r.year,
             robot_stock |-> r.robot_stock]))

\* np.log1p
log1p(x) ==
    IF x > -1 THEN [kind |-> "fin", arg |-> x + 1]
    ELSE IF x = -1 THEN [kind |-> "ninf", arg |-> 0]
    ELSE [kind |-> "nan", arg |-> 0]

\* line 91 as a join on the position in the two frames
merge_aligned(left, right) ==
    [i \in 1..(IF Len(left) < Len(right) THEN Len(left) ELSE Len(right)) |->
        left[i] @@ right[i]]

\* line 91: merge(weights, how="cross"): every left row with every right row,
\* in the order of the left rows and then of the right rows
merge_cross(left, right) ==
    Flatten(MapSeq(left, LAMBDA l : MapSeq(right, LAMBDA r : l @@ r)))

\* lines 94-98
exposure(rows) ==
    MapSeq(rows, LAMBDA r : r @@
        [robot_exposure |-> Num(r.robot_stock.v * r.auto_weight.v),
         ln1p_robot_stock |-> log1p(r.robot_stock.v),
         robot_exposure_log |-> [ln1p |-> log1p(r.robot_stock.v), times |-> r.auto_weight.v]])

\* the country and industry texts in the order Python compares strings
TEXT_ORDER == << "100", "110", "120", "130", "Asia-Pacific", "DE", "SE" >>

RECURSIVE SortInts(_)
SortInts(S) ==
    IF S = {} THEN << >>
    ELSE LET m == CHOOSE x \in S : \A y \in S : x <= y IN << m >> \o SortInts(S \ {m})

\* line 100: sort_values(["country", "industry_id", "year"]), rows of equal keys
\* in the order they had; a text with a leading blank comes before the others
sort_values(rows) ==
    LET years == SortInts({rows[i].year : i \in 1..Len(rows)})
    IN  Flatten(MapSeq(TEXT_ORDER, LAMBDA c :
            Flatten(MapSeq(<< TRUE, FALSE >>, LAMBDA b :
                Flatten(MapSeq(TEXT_ORDER, LAMBDA n :
                    Flatten(MapSeq(years, LAMBDA y :
                        SelectSeq(rows, LAMBDA r : /\ r.country = c
                                                   /\ r.industry_id.blanks = b
                                                   /\ r.industry_id.text = n
                                                   /\ r.year = y)))))))))

\* lines 26-105: the rows written; nothing is written when no header is a year
\* (line 59)
share_shift(w, file) ==
    IF year_cols(file) = << >> THEN NoOutput
    ELSE [written |-> TRUE,
          rows |-> sort_values(exposure(merge_cross(ifr_long(file), weights(w))))]

----------------------------------------------------------------------------
(* runall.py *)

\* lines 22-30, by the file names
scripts ==
    << "1-datacheck.py", "2-cleaning-data.py", "3-equation1-baseline.py",
       "4-equation2-institutional-moderation-coordination.py",
       "5-equation3-institutional-moderation-coverage.py",
       "6-equation4-industry-heterogeneity-coordination.py",
       "7-equation5-industry-heterogeneity-coverage.py" >>

ALL_DONE == "All scripts completed successfully."

\* state is "off" while runall is not in use, "running" inside the loop,
\* "failed" after CalledProcessError and "completed" after line 40; at is the
\* position in scripts of the subprocess under way, exits the statuses of the
\* subprocesses that have ended and log the messages of lines 36, 38 and 40
RunallOff == [state |-> "off", at |-> 0, exits |-> << >>, log |-> << >>]

\* a script may take a step when it is run by hand or is the subprocess of runall
turn(script) ==
    \/ ra.state = "off"
    \/ ra.state = "running" /\ scripts[ra.at] = script

\* the subprocess of runall under way has ended
ended(script) ==
    CASE script = scripts[1] -> dc.ran
      [] script = scripts[2] -> pc \in {"cleaned", "FileNotFoundError", "crashed"}
      [] script = scripts[3] -> eq1.ran
      [] script = scripts[4] -> eq2.ran
      [] script = scripts[5] -> eq3.ran
      [] script = scripts[6] -> eq4.ran
      [] script = scripts[7] -> eq5.ran

\* the exit statuses it may have ended with: 1 for an exception that nothing
\* catches.  Equations 1 to 3 call the estimator outside any try block, so
\* they end with 0 or 1; the script of equation 4 is not among the sources,
\* and python ends with 2 for a file it cannot open; equation 5 catches the
\* exceptions of the estimator.
returncodes(script) ==
    CASE script = scripts[1] -> {dc.exit}
      [] script = scripts[2] -> {IF pc = "cleaned" THEN 0 ELSE 1}
      [] script = scripts[3] -> {0, 1}
      [] script = scripts[4] -> {0, 1}
      [] script = scripts[5] -> {0, 1}
      [] script = scripts[6] -> {0, 1, 2}
      [] script = scripts[7] -> {0}

----------------------------------------------------------------------------
(* The steps of a run *)

\* lines 78-84; a missing file ends the run with FileNotFoundError
LoadIfr ==
    /\ pc = "idle"
    /\ turn(scripts[2])
    /\ IF load_csv(IFR_PATH, onDisk)
       THEN /\ ifr' = ifr_frame(ifrFile)
            /\ pc' = "klems"
       ELSE /\ pc' = "FileNotFoundError"
            /\ UNCHANGED ifr
    /\ UNCHANGED << inputs, klems_wide, ictwss_baseline, gdp, une, df_merged, df,
                    adj_mean, cleaned, eq3, eq5, aside >>

\* lines 87-100
LoadKlems ==
    /\ pc = "klems"
    /\ IF load_csv(KLEMS_PATH, onDisk)
       THEN /\ klems_wide' = pivot_first(klems_long(klemsFile))
            /\ pc' = "ictwss"
       ELSE /\ pc' = "FileNotFoundError"
            /\ UNCHANGED klems_wide
    /\ UNCHANGED << inputs, ifr, ictwss_baseline, gdp, une, df_merged, df, adj_mean,
                    cleaned, eq3, eq5, aside >>

\* lines 104-116
LoadIctwss ==
    /\ pc = "ictwss"
    /\ IF load_csv(ICTWSS_PATH, onDisk)
       THEN /\ ictwss_baseline' = ictwss_frame(ictwssFile)
            /\ pc' = "gdp"
       ELSE /\ pc' = "FileNotFoundError"
            /\ UNCHANGED ictwss_baseline
    /\ UNCHANGED << inputs, ifr, klems_wide, gdp, une, df_merged, df, adj_mean,
                    cleaned, eq3, eq5, aside >>

\* lines 119-128
LoadGdp ==
    /\ pc = "gdp"
    /\ IF load_csv(gdp_path(onDisk), onDisk)
       THEN /\ gdp' = eurostat_frame(gdpFile, "gdp")
            /\ pc' = "une"
       ELSE /\ pc' = "FileNotFoundError"
            /\ UNCHANGED gdp
    /\ UNCHANGED << inputs, ifr, klems_wide, ictwss_baseline, une, df_merged, df,
                    adj_mean, cleaned, eq3, eq5, aside >>

\* lines 131-137
LoadUne ==
    /\ pc = "une"
    /\ IF load_csv(UNE_PATH, onDisk)
       THEN /\ une' = eurostat_frame(uneFile, "unemployment")
            /\ pc' = "merge"
       ELSE /\ pc' = "FileNotFoundError"
            /\ UNCHANGED une
    /\ UNCHANGED << inputs, ifr, klems_wide, ictwss_baseline, gdp, df_merged, df,
                    adj_mean, cleaned, eq3, eq5, aside >>

\* lines 140-147
MergeIfrKlems ==
    /\ pc = "merge"
    /\ df_merged' = inner_join(ifr, klems_wide)
    /\ df' = df_merged'
    /\ pc' = "country"
    /\ UNCHANGED << inputs, ifr, klems_wide, ictwss_baseline, gdp, une, adj_mean,
                    cleaned, eq3, eq5, aside >>

\* lines 150-152
AddCountryLevel ==
    /\ pc = "country"
    /\ df' = add_country_level(df, gdp, une, ictwss_baseline)
    /\ pc' = "build"
    /\ UNCHANGED << inputs, ifr, klems_wide, ictwss_baseline, gdp, une, df_merged,
                    adj_mean, cleaned, eq3, eq5, aside >>

\* lines 155-169; df["LAB_QI"], df["VA_PYP"] or df["CAP_QI"] raises KeyError when
\* the pivot has left that column out, and the run ends without output
BuildVars ==
    /\ pc = "build"
    /\ IF klems_read \subseteq klems_wide.cols
       THEN /\ df' = build_vars(df)
            /\ adj_mean' = adjcov_mean(df)
            /\ pc' = "write"
       ELSE /\ pc' = "crashed"
            /\ UNCHANGED << df, adj_mean >>
    /\ UNCHANGED << inputs, ifr, klems_wide, ictwss_baseline, gdp, une, df_merged,
                    cleaned, eq3, eq5, aside >>

\* lines 172-188
DropAndWrite ==
    /\ pc = "write"
    /\ cleaned' = [written |-> TRUE, cols |-> cols_out, rows |-> final_rows(df)]
    /\ pc' = "cleaned"
    /\ UNCHANGED << inputs, ifr, klems_wide, ictwss_baseline, gdp, une, df_merged, df,
                    adj_mean, eq3, eq5, aside >>

\* of the weight scripts and the scripts about the panel a run follows one kind
no_weight_script == ~weights_nace2.written /\ ~panel.written

\* a script that reads cleaned_data.csv runs when no cleaning run is under way
\* and the file exists
script_may_run ==
    pc \in {"idle", "models", "cleaned"} /\ cleaned.written /\ no_weight_script

\* The model scripts are separate processes that share nothing but the file,
\* which they only read; of the model scripts run by hand a run follows one.
model_may_run(script) ==
    /\ script_may_run
    /\ \/ ra.state = "off" /\ ~eq2.ran /\ ~eq3.ran /\ ~eq5.ran
       \/ ra.state = "running" /\ scripts[ra.at] = script

\* a script run by hand before the cleaning step leaves no cleaning run to follow
after_script == IF pc = "idle" /\ ra.state = "off" THEN "models" ELSE pc

\* 1-datacheck.py, the whole script
Datacheck ==
    /\ pc \in {"idle", "models", "cleaned"}
    /\ no_weight_script
    /\ turn(scripts[1])
    /\ ~dc.ran
    /\ dc' = datacheck(onDisk, ictwssFile, gdpFile, uneFile, cleaned, pc)
    /\ pc' = after_script
    /\ UNCHANGED << inputs, ifr, klems_wide, ictwss_baseline, gdp, une, df_merged, df,
                    adj_mean, cleaned, eq1, eq2, eq3, eq4, eq5, ra, weights_nace2, panel >>

\* 3-equation1-baseline.py, main(), followed as a subprocess of runall
Eq1Baseline ==
    /\ script_may_run
    /\ ra.state = "running" /\ scripts[ra.at] = scripts[3]
    /\ ~eq1.ran
    /\ eq1' = [ran |-> TRUE, rows |-> equation1_sample(read_csv(cleaned))]
    /\ UNCHANGED << inputs, pc, ifr, klems_wide, ictwss_baseline, gdp, une, df_merged,
                    df, adj_mean, cleaned, eq2, eq3, eq4, eq5, dc, ra, weights_nace2,
                    panel >>

\* 4-equation2-institutional-moderation-coordination.py, main() with step 2
Eq2CoordinationModel ==
    /\ model_may_run(scripts[4])
    /\ ~eq2.ran
    /\ LET seen == step_diagnostics(read_csv(cleaned))
       IN  eq2' = [ran |-> TRUE, seen |-> seen, rows |-> step_coordination_model(seen)]
    /\ pc' = after_script
    /\ UNCHANGED << inputs, ifr, klems_wide, ictwss_baseline, gdp, une, df_merged, df,
                    adj_mean, cleaned, eq1, eq3, eq4, eq5, dc, ra, weights_nace2, panel >>

\* 5-equation3-institutional-moderation-coverage.py, main() with step 2
Eq3CoverageModel ==
    /\ model_may_run(scripts[5])
    /\ ~eq3.ran
    /\ LET seen == step_diagnostics(read_csv(cleaned))
       IN  eq3' = [ran |-> TRUE, seen |-> seen, rows |-> step_coverage_model(seen)]
    /\ pc' = after_script
    /\ UNCHANGED << inputs, ifr, klems_wide, ictwss_baseline, gdp, une, df_merged, df,
                    adj_mean, cleaned, eq5, aside >>

\* 6-equation4-industry-heterogeneity-coordination.py, the sixth entry of
\* scripts, followed as a subprocess of runall
Eq4Script ==
    /\ ra.state = "running" /\ scripts[ra.at] = scripts[6]
    /\ ~eq4.ran
    /\ eq4' = [ran |-> TRUE]
    /\ UNCHANGED << inputs, pc, ifr, klems_wide, ictwss_baseline, gdp, une, df_merged,
                    df, adj_mean, cleaned, eq1, eq2, eq3, eq5, dc, ra, weights_nace2,
                    panel >>

\* 7-equation5-industry-heterogeneity-coverage.py, main() with step 2
Eq5Model ==
    /\ model_may_run(scripts[7])
    /\ ~eq5.ran
    /\ LET seen == step_diagnostics(read_csv(cleaned))
       IN  \E S \in SUBSET industries(step_model_sample(seen)) :
               \E raised \in [S -> ExceptionTexts] :
                   eq5' = step_model(seen, raised)
    /\ pc' = after_script
    /\ UNCHANGED << inputs, ifr, klems_wide, ictwss_baseline, gdp, une, df_merged, df,
                    adj_mean, cleaned, eq3, aside >>

\* runall.py, line 32 with the first entry: lines 33-37
RunallStart ==
    /\ pc = "idle"
    /\ ra.state = "off"
    /\ ra' = [state |-> "running", at |-> 1, exits |-> << >>,
              log |-> << "Running " \o scripts[1] >>]
    /\ UNCHANGED << inputs, pc, ifr, klems_wide, ictwss_baseline, gdp, une, df_merged,
                    df, adj_mean, cleaned, eq1, eq2, eq3, eq4, eq5, dc, weights_nace2,
                    panel >>

\* the loop after an exit status with check=False: every script is started
runall_unchecked(r, code) ==
    IF r.at = Len(scripts)
    THEN [r EXCEPT !.state = "completed", !.exits = Append(@, code),
                   !.log = @ \o << "Completed " \o scripts[r.at], ALL_DONE >>]
    ELSE [r EXCEPT !.at = @ + 1, !.exits = Append(@, code),
                   !.log = @ \o << "Completed " \o scripts[r.at],
                                   "Running " \o scripts[r.at + 1] >>]

\* lines 37-40 and 32-36: subprocess.run(check=True) returns for status 0 and
\* raises CalledProcessError otherwise, which ends runall; after the last
\* script line 40 logs the closing message
runall_after(r, code) ==
    IF code # 0
    THEN [r EXCEPT !.state = "failed", !.exits = Append(@, code)]
    ELSE IF r.at = Len(scripts)
    THEN [r EXCEPT !.state = "completed", !.exits = Append(@, code),
                   !.log = @ \o << "Completed " \o scripts[r.at], ALL_DONE >>]
    ELSE [r EXCEPT !.at = @ + 1, !.exits = Append(@, code),
                   !.log = @ \o << "Completed " \o scripts[r.at],
                                   "Running " \o scripts[r.at + 1] >>]

\* the subprocess of line 37 has ended
RunallAdvance ==
    /\ ra.state = "running"
    /\ ended(scripts[ra.at])
    /\ \E code \in returncodes(scripts[ra.at]) : ra' = runall_after(ra, code)
    /\ UNCHANGED << inputs, pc, ifr, klems_wide, ictwss_baseline, gdp, une, df_merged,
                    df, adj_mean, cleaned, eq1, eq2, eq3, eq4, eq5, dc, weights_nace2,
                    panel >>

\* 2-crosswalk_ind1990_to_nace2.py, the whole script, run by hand
Crosswalk ==
    /\ pc = "idle"
    /\ ra.state = "off"
    /\ ~weights_nace2.written
    /\ weights_nace2' = [written |-> TRUE, rows |-> crosswalk_rows(weightsFile, crosswalkFile)]
    /\ pc' = after_script
    /\ UNCHANGED << inputs, ifr, klems_wide, ictwss_baseline, gdp, une, df_merged, df,
                    adj_mean, cleaned, eq1, eq2, eq3, eq4, eq5, dc, ra, panel >>

\* 1-share-shift-weights.py, the whole script, run by hand
ShareShift ==
    /\ pc = "idle" \/ (pc = "models" /\ weights_nace2.written)
    /\ ra.state = "off"
    /\ panel = NoOutput
    /\ panel' = share_shift(weightsFile, stockFile)
    /\ pc' = after_script
    /\ UNCHANGED << inputs, ifr, klems_wide, ictwss_baseline, gdp, une, df_merged, df,
                    adj_mean, cleaned, eq1, eq2, eq3, eq4, eq5, dc, ra, weights_nace2 >>

Next ==
    \/ LoadIfr
    \/ LoadKlems
    \/ LoadIctwss
    \/ LoadGdp
    \/ LoadUne
    \/ MergeIfrKlems
    \/ AddCountryLevel
    \/ BuildVars
    \/ DropAndWrite
    \/ Datacheck
    \/ Eq1Baseline
    \/ Eq2CoordinationModel
    \/ Eq3CoverageModel
    \/ Eq4Script
    \/ Eq5Model
    \/ RunallStart
    \/ RunallAdvance
    \/ Crosswalk
    \/ ShareShift

----------------------------------------------------------------------------
(* Source files the runs are checked on *)

MaxIfrRows == 3

MaxKlemsRows == 2

MaxCountryRows == 2

SeqsUpTo(S, n) == UNION {[1..k -> S] : k \in 0..n}

SeqsFrom1(S, n) == UNION {[1..k -> S] : k \in 1..n}

IfrRow(c, i, y, x) ==
    [country_code |-> c, industry_code |-> i, year |-> y, robot_wrkr_stock_95 |-> x]

KlemsRow(g, n, y, v, x) ==
    [geo_code |-> g, nace_r2_code |-> n, year |-> y, var |-> v, value |-> x]

IctwssRow(c, y, a, k) == [iso3 |-> c, year |-> y, AdjCov |-> a, Coord |-> k]

EurostatRow(g, y, x) == [geo |-> g, TIME_PERIOD |-> y, OBS_VALUE |-> x]

\* a growth-accounts file with the three variables the panel reads, all present
RefKlems(cs, ns, ys) ==
    SetToSeq({KlemsRow(c, n, Tok(y), v, Tok(100)) :
                 c \in cs, n \in ns, y \in ys, v \in klems_read})

RefIctwss ==
    << IctwssRow("DEU", 1995, Tok(10), Tok(4)), IctwssRow("GRC", 1995, Tok(30), Tok(2)) >>

RefEurostat(ys, x) ==
    SetToSeq({EurostatRow(g, Tok(y), Tok(x)) : g \in {"Germany", "Greece"}, y \in ys})

\* the weight and stock files of the runs that are about the panel
RefWeights ==
    << [ind1990 |-> Ind("100", FALSE), replaceability_ind |-> Num(10), w_ind |-> 1],
       [ind1990 |-> Ind("110", FALSE), replaceability_ind |-> Num(20), w_ind |-> 3] >>

RefCrosswalk ==
    << [ind1990 |-> Ind("100", FALSE), nace2 |-> Tok(10)],
       [ind1990 |-> Ind("110", FALSE), nace2 |-> Tok(10)] >>

RefStock ==
    [headers |-> << 2004 >>,
     rows |-> << [label |-> Label(NoStr, NoStr, FALSE), stock |-> [y \in {2004} |-> Junk]],
                 [label |-> Label("DE-Germany", "DE", TRUE),
                  stock |-> [y \in {2004} |-> Tok(5)]] >>]

\* the state before a run: no frame built, no script run
FreshState ==
    /\ pc = "idle"
    /\ ifr = << >>
    /\ klems_wide = [cols |-> {}, rows |-> {}]
    /\ ictwss_baseline = {}
    /\ gdp = {}
    /\ une = {}
    /\ df_merged = << >>
    /\ df = << >>
    /\ adj_mean = RatNA
    /\ eq1 = [ran |-> FALSE, rows |-> {}]
    /\ eq2 = NotRun
    /\ eq3 = NotRun
    /\ eq4 = [ran |-> FALSE]
    /\ eq5 = Eq5NotRun
    /\ dc = DatacheckNotRun
    /\ ra = RunallOff
    /\ weights_nace2 = NoOutput
    /\ panel = NoOutput

\* that state with the reference weight and stock files
Fresh ==
    /\ FreshState
    /\ weightsFile = RefWeights
    /\ crosswalkFile = RefCrosswalk
    /\ stockFile = RefStock

\* Robot files with a country outside the study, an industry outside the
\* crosswalk and a year before the window, rows repeated and in any order;
\* and growth-accounts files with rows of a variable the panel does not read
\* and rows without a number.
JoinIfrRows ==
    {IfrRow(c, i, y, Num(5)) : c \in {"DE", "US"}, i \in {"28", "99"}, y \in {1994, 1995}}
    \cup {IfrRow("DE", "28", 1993, Num(5))}

JoinKlemsRows ==
    {KlemsRow(g, "C29-C30", Tok(1995), v, x) :
        g \in {"DE", "US"}, v \in {"LAB_QI", "LAB"}, x \in {Tok(100), Junk}}

InitJoin ==
    /\ Fresh
    /\ onDisk = SourcePaths \ {GDP_PATH_B}
    /\ cleaned = NoFile
    /\ ictwssFile = RefIctwss
    /\ gdpFile = RefEurostat({1995}, 100)
    /\ uneFile = RefEurostat({1995}, 7)
    /\ \/ /\ ifrFile \in SeqsUpTo(JoinIfrRows, MaxIfrRows)
          /\ klemsFile = RefKlems({"DE", "US"}, {"C28"}, {1994, 1995})
       \/ /\ ifrFile = << IfrRow("DE", "28", 1994, Num(5)), IfrRow("DE", "28", 1995, Num(5)),
                          IfrRow("DE", "29", 1995, Num(5)), IfrRow("US", "28", 1995, Num(5)) >>
          /\ \E more \in SeqsUpTo(JoinKlemsRows, MaxKlemsRows) :
                klemsFile = RefKlems({"DE"}, {"C28"}, {1995}) \o more

SpecJoin == InitJoin /\ [][Next]_vars

----------------------------------------------------------------------------
(* The sample-defining join *)

\* the inner join of lines 142-147 has been made
Merged == pc \in {"country", "build", "write", "cleaned", "crashed"}

MergedKeys ==
    {<< df_merged[i].country_code, df_merged[i].industry_code, df_merged[i].year >> :
        i \in 1..Len(df_merged)}

\* the keys (study country, IFR industry, year) the two files can give rise to
StudyKeys ==
    {k \in ({ifrFile[i].country_code : i \in 1..Len(ifrFile)}
              \cup {klemsFile[j].geo_code : j \in 1..Len(klemsFile)})
           \X {ifrFile[i].industry_code : i \in 1..Len(ifrFile)}
           \X {ifrFile[i].year : i \in 1..Len(ifrFile)} :
        k[1] \in EU_ISO2 /\ k[2] \in DOMAIN IFR_TO_NACE}

RobotHasRow(k) ==
    \E i \in 1..Len(ifrFile) :
        /\ ifrFile[i].country_code = k[1]
        /\ ifrFile[i].industry_code = k[2]
        /\ ifrFile[i].year = k[3]
        /\ k[3] >= TARGET_FIRST_YEAR /\ k[3] <= TARGET_LAST_YEAR

KlemsHasRow(c, n, y) ==
    \E j \in 1..Len(klemsFile) :
        /\ klemsFile[j].geo_code = c
        /\ klemsFile[j].nace_r2_code = n
        /\ klemsFile[j].year = Tok(y)

KlemsHasValue(c, n, y) ==
    \E j \in 1..Len(klemsFile) :
        /\ klemsFile[j].geo_code = c
        /\ klemsFile[j].nace_r2_code = n
        /\ klemsFile[j].year = Tok(y)
        /\ klemsFile[j].var \in vars_needed
        /\ klemsFile[j].value.txt = "num"

\* C1 as stated: a key of a study country and an IFR industry is in the merged
\* panel if and only if the robot file has a row for it within the year window
\* and the growth-accounts file has a row for (country, IFR_TO_NACE[industry],
\* year).
C1_AnyKlemsRow ==
    Merged =>
        \A k \in StudyKeys :
            k \in MergedKeys <=>
                (RobotHasRow(k) /\ KlemsHasRow(k[1], IFR_TO_NACE[k[2]], k[3]))

\* C1 as amended: a key is in the merged panel if and only if the robot file has
\* a row for it with a study country, an IFR industry and a year of the window,
\* and the growth-accounts file has for (country, IFR_TO_NACE[industry], year) a
\* row of one of the five variables the step keeps that holds a number; a key
\* present in only one of the two files is never in the merged panel.
C1_InnerJoinKeys ==
    Merged =>
        /\ \A k \in StudyKeys :
              k \in MergedKeys <=>
                  (RobotHasRow(k) /\ KlemsHasValue(k[1], IFR_TO_NACE[k[2]], k[3]))
        /\ MergedKeys \subseteq StudyKeys

\* a run in which one key of the robot file was joined and another was not
C1_Witness ==
    /\ Merged
    /\ \E k \in StudyKeys : k \in MergedKeys
    /\ \E k \in StudyKeys : RobotHasRow(k) /\ k \notin MergedKeys

----------------------------------------------------------------------------
(* The panel that is written *)

\* C3: the panel written by the cleaning step has at most one row per
\* (entity, year), whatever the source files hold.
C3_UniqueEntityYear ==
    cleaned.written =>
        \A i, j \in 1..Len(cleaned.rows) :
            (/\ cleaned.rows[i].entity = cleaned.rows[j].entity
             /\ cleaned.rows[i].year = cleaned.rows[j].year) => i = j

\* C4: every row of the written panel has a country of the EU set, a year of
\* 1995..2019, an industry that is a key of IFR_TO_NACE and the NACE code the
\* crosswalk gives for that industry.
C4_CanonicalKey ==
    cleaned.written =>
        \A i \in 1..Len(cleaned.rows) :
            LET r == cleaned.rows[i]
            IN  /\ r.country_code \in EU_ISO2
                /\ r.year >= TARGET_FIRST_YEAR /\ r.year <= TARGET_LAST_YEAR
                /\ r.industry_code \in DOMAIN IFR_TO_NACE
                /\ r.nace_r2_code = IFR_TO_NACE[r.industry_code]

\* a panel was written from a robot file that also held a row of another
\* country, of an unknown industry and of a year before the window
C4_Witness ==
    /\ cleaned.written
    /\ cleaned.rows # << >>
    /\ \E i \in 1..Len(ifrFile) : ifrFile[i].country_code \notin EU_ISO2
                                     \/ ifrFile[i].industry_code \notin DOMAIN IFR_TO_NACE
    /\ \E i \in 1..Len(ifrFile) : ifrFile[i].year < TARGET_FIRST_YEAR

----------------------------------------------------------------------------
(* The left joins of the country-level sources *)

\* Institution, GDP and unemployment files with a country outside the study or
\* the mapping tables, years outside the baseline window, cells without a
\* number and repeated (country, year) keys, under a robot file of two
\* countries.
TwoCountryIfr ==
    << IfrRow("DE", "28", 1994, Num(5)), IfrRow("DE", "28", 1995, Num(6)),
       IfrRow("EL", "28", 1994, Num(7)), IfrRow("EL", "28", 1995, Num(8)) >>

CountryIctwssRows ==
    {IctwssRow(c, y, v[1], v[2]) : c \in {"DEU", "GRC", "USA"}, y \in {1989, 1995},
                                   v \in {<< Tok(10), Tok(4) >>, << Junk, Junk >>}}

CountryEurostatRows ==
    {EurostatRow(g, Tok(1995), x) : g \in {"Germany", "Greece", "Narnia"},
                                    x \in {Tok(100), Tok(200), Junk}}
    \cup {EurostatRow(g, Junk, Tok(100)) : g \in {"Germany", "Greece", "Narnia"}}

InitCountry ==
    /\ Fresh
    /\ onDisk = SourcePaths \ {GDP_PATH_B}
    /\ cleaned = NoFile
    /\ ifrFile = TwoCountryIfr
    /\ klemsFile = RefKlems({"DE", "EL"}, {"C28"}, {1995})
    /\ \/ /\ ictwssFile \in SeqsFrom1(CountryIctwssRows, MaxCountryRows)
          /\ gdpFile = RefEurostat({1995}, 100)
          /\ uneFile = RefEurostat({1995}, 7)
       \/ /\ ictwssFile = RefIctwss
          /\ gdpFile \in SeqsFrom1(CountryEurostatRows, MaxCountryRows)
          /\ uneFile = RefEurostat({1995}, 7)
       \/ /\ ictwssFile = RefIctwss
          /\ gdpFile = RefEurostat({1995}, 100)
          /\ uneFile \in SeqsFrom1(CountryEurostatRows, MaxCountryRows)

SpecCountry == InitCountry /\ [][Next]_vars

\* the left joins of lines 150-152 have been made
CountryJoined == pc \in {"build", "write", "cleaned", "crashed"}

\* the institutions file has a row of the baseline window for the country
HasInstitutionRow(c) ==
    \E i \in 1..Len(ictwssFile) :
        /\ map_table(ISO3_TO_ISO2, ictwssFile[i].iso3) = c
        /\ ictwssFile[i].year >= BASE_FIRST_YEAR
        /\ ictwssFile[i].year <= BASE_LAST_YEAR

\* C2: the three left joins neither remove nor duplicate rows (the panel has
\* the rows of the inner-joined panel, one for one and in the same order), and
\* every row of a country without institutional data has a null adjcov and a
\* null coord, in the panel and in the file written from it.
C2_LeftJoinsKeepRows ==
    /\ CountryJoined =>
          /\ Len(df) = Len(df_merged)
          /\ \A i \in 1..Len(df) :
                /\ \A f \in DOMAIN df_merged[i] : df[i][f] = df_merged[i][f]
                /\ ~HasInstitutionRow(df[i].country_code) =>
                      df[i].AdjCov.na /\ df[i].Coord.na
    /\ pc = "cleaned" =>
          \A i \in 1..Len(cleaned.rows) :
              ~HasInstitutionRow(cleaned.rows[i].country_code) =>
                  cleaned.rows[i].adjcov.na /\ cleaned.rows[i].coord.na

\* a written panel with the rows of a country that has institutional data and
\* of one that has none
C2_Witness ==
    /\ pc = "cleaned"
    /\ \E i, j \in 1..Len(cleaned.rows) :
          /\ ~HasInstitutionRow(cleaned.rows[i].country_code)
          /\ cleaned.rows[i].adjcov.na
          /\ ~cleaned.rows[j].adjcov.na
    /\ Len(df) = Len(df_merged)

----------------------------------------------------------------------------
(* The lagged treatment *)

\* Robot files of one country and two industries over 1994..1996, the stock of
\* a year being its distance from 1990, with rows missing, repeated and in any
\* order.
LagYears == 1994..1996

LagIfrRows == {IfrRow("DE", i, y, Num(y - 1990)) : i \in {"28", "29"}, y \in LagYears}

InitLag ==
    /\ Fresh
    /\ onDisk = SourcePaths \ {GDP_PATH_B}
    /\ cleaned = NoFile
    /\ ifrFile \in SeqsUpTo(LagIfrRows, MaxIfrRows)
    /\ klemsFile = RefKlems({"DE"}, {"C28", "C29-C30"}, LagYears)
    /\ ictwssFile = RefIctwss
    /\ gdpFile = RefEurostat(LagYears, 100)
    /\ uneFile = RefEurostat(LagYears, 7)

SpecLag == InitLag /\ [][Next]_vars

SameEntity(a, b) ==
    a.country_code = b.country_code /\ a.industry_code = b.industry_code

\* the rows of the robot file that lines 79-81 keep
KeptIfr(i) ==
    /\ ifrFile[i].country_code \in EU_ISO2
    /\ ifrFile[i].industry_code \in DOMAIN IFR_TO_NACE
    /\ ifrFile[i].year >= IFR_FIRST_YEAR /\ ifrFile[i].year <= TARGET_LAST_YEAR

\* C5: for two rows of one entity in consecutive years y and y+1 of the written
\* panel, ln_robots_lag1 of the row of y+1 is ln_robots of the row of y,
\* whatever the order of the rows in the robot file.
C5_LagIsPreviousYear ==
    cleaned.written =>
        \A i, j \in 1..Len(cleaned.rows) :
            (/\ SameEntity(cleaned.rows[i], cleaned.rows[j])
             /\ cleaned.rows[j].year = cleaned.rows[i].year + 1)
            => cleaned.rows[j].ln_robots_lag1 = cleaned.rows[i].ln_robots

\* C6: a row of year y of an entity that has no robot-source row of year y-1
\* has a null ln_robots_lag1, in the robot frame and in the written panel.
C6_NoLagAcrossGap ==
    LET gap(r) == ~\E i \in 1..Len(ifrFile) :
                      SameEntity(ifrFile[i], r) /\ ifrFile[i].year = r.year - 1
    IN  /\ pc # "idle" =>
              \A k \in 1..Len(ifr) : gap(ifr[k]) => ifr[k].ln_robots_lag1.kind = "nan"
        /\ cleaned.written =>
              \A k \in 1..Len(cleaned.rows) :
                  gap(cleaned.rows[k]) => cleaned.rows[k].ln_robots_lag1.kind = "nan"

\* the years of an entity in the assembled panel
PanelYears(r) == {df[i].year : i \in {j \in 1..Len(df) : SameEntity(df[j], r)}}

----------------------------------------------------------------------------
(* The logarithms *)

\* Robot files with zero, negative and missing stocks, and growth-accounts and
\* GDP files with zero, negative and non-numeric values.
LogIfrRows ==
    {IfrRow("DE", "28", y, x) : y \in {1994, 1995}, x \in {Num(-1), Num(0), Num(5), NA}}

LogValues == {Tok(-10), Tok(0), Tok(100), Junk}

InitLog ==
    /\ Fresh
    /\ onDisk = SourcePaths \ {GDP_PATH_B}
    /\ cleaned = NoFile
    /\ ictwssFile = RefIctwss
    /\ uneFile = RefEurostat({1995}, 7)
    /\ \/ /\ ifrFile \in SeqsUpTo(LogIfrRows, MaxIfrRows)
          /\ klemsFile = RefKlems({"DE"}, {"C28"}, {1995})
          /\ gdpFile = RefEurostat({1995}, 100)
       \/ /\ ifrFile = << IfrRow("DE", "28", 1994, Num(5)), IfrRow("DE", "28", 1995, Num(6)) >>
          /\ \E a, b, c \in LogValues :
                klemsFile = << KlemsRow("DE", "C28", Tok(1995), "LAB_QI", a),
                               KlemsRow("DE", "C28", Tok(1995), "VA_PYP", b),
                               KlemsRow("DE", "C28", Tok(1995), "CAP_QI", c) >>
          /\ \E g \in LogValues : gdpFile = << EurostatRow("Germany", Tok(1995), g) >>

SpecLog == InitLog /\ [][Next]_vars

Finite(l) == l.kind = "fin"

\* C8: each logarithm the cleaning step builds (ln_hours, ln_va, ln_cap, ln_gdp
\* and ln_robots) is finite on every row whose level value is not missing, zero
\* and negative levels included.
C8_LogsFinite ==
    pc \in {"write", "cleaned"} =>
        \A i \in 1..Len(df) :
            /\ ~df[i].LAB_QI.na => Finite(df[i].ln_hours)
            /\ ~df[i].VA_PYP.na => Finite(df[i].ln_va)
            /\ ~df[i].CAP_QI.na => Finite(df[i].ln_cap)
            /\ ~df[i].gdp.na => Finite(df[i].ln_gdp)
            /\ ~df[i].robot_wrkr_stock_95.na => Finite(df[i].ln_robots)

----------------------------------------------------------------------------
(* The centering constant *)

\* a cleaned_data.csv without the adjcov_centered column (the case lines 49-51
\* of equation 3 and 64-66 of equation 5 provide for), holding the rows the
\* cleaning step builds from the same sources
LegacyFile(fi, fk, fc, fg, fu) ==
    [written |-> TRUE,
     cols |-> cols_out \ {"adjcov_centered"},
     rows |-> MapSeq(clean_rows(fi, fk, fc, fg, fu),
                     LAMBDA r : [f \in DOMAIN r \ {"adjcov_centered"} |-> r[f]])]

CenterIfrFiles ==
    {TwoCountryIfr,
     TwoCountryIfr \o << IfrRow("DE", "28", 1996, Num(9)) >>,
     << IfrRow("DE", "28", 1994, Num(5)), IfrRow("DE", "28", 1995, Num(6)),
        IfrRow("EL", "29", 1994, Num(7)), IfrRow("EL", "29", 1995, Num(8)) >>}

CenterIctwssRows ==
    {IctwssRow(c, 1995, Tok(a), Tok(3)) : c \in {"DEU", "GRC"}, a \in {10, 30}}

CenterGdpRows == {EurostatRow(g, Tok(1995), Tok(100)) : g \in {"Germany", "Greece"}}

InitCenter ==
    /\ Fresh
    /\ onDisk = SourcePaths \ {GDP_PATH_B}
    /\ ifrFile \in CenterIfrFiles
    /\ klemsFile = RefKlems({"DE", "EL"}, {"C28", "C29-C30"}, {1995, 1996})
    /\ ictwssFile \in SeqsFrom1(CenterIctwssRows, MaxCountryRows)
    /\ gdpFile \in SeqsFrom1(CenterGdpRows, MaxCountryRows)
    /\ uneFile = RefEurostat({1995, 1996}, 7)
    /\ cleaned \in {NoFile, LegacyFile(ifrFile, klemsFile, ictwssFile, gdpFile, uneFile)}

SpecCenter == InitCenter /\ [][Next]_vars

\* the mean of the non-missing adjcov values of the whole assembled panel, before
\* any row is filtered out
PanelMean ==
    adjcov_mean(add_country_level(
        inner_join(ifr_frame(ifrFile), pivot_first(klems_long(klemsFile))),
        eurostat_frame(gdpFile, "gdp"), eurostat_frame(uneFile, "unemployment"),
        ictwss_frame(ictwssFile)))

\* C9: in the equation 3 sample and in every per-industry subgroup of equation
\* 5, adjcov_centered is adjcov minus the one mean of adjcov over the entire
\* assembled panel, also when the model step computes the column itself.
C9_OneCenteringConstant ==
    /\ eq3.ran => \A r \in eq3.rows : r.adjcov_centered = RatSub(r.adjcov, PanelMean)
    /\ eq5.ran =>
          \A ind \in industries(eq5.rows) :
              \A r \in df_ind(eq5.rows, ind) :
                  r.adjcov_centered = RatSub(r.adjcov, PanelMean)

----------------------------------------------------------------------------
(* Country codes *)

\* Robot files that code Greece as EL or as GR, growth accounts in either
\* convention, and institution and Eurostat files with ISO3 codes and names.
NormIfrRows ==
    {IfrRow(c, "28", y, Num(5)) : c \in {"DE", "EL", "GR"}, y \in {1994, 1995}}

InitNorm ==
    /\ Fresh
    /\ onDisk = SourcePaths \ {GDP_PATH_B}
    /\ cleaned = NoFile
    /\ ifrFile \in SeqsFrom1(NormIfrRows, MaxIfrRows)
    /\ \E greece \in {"EL", "GR"} : klemsFile = RefKlems({"DE", greece}, {"C28"}, {1995})
    /\ ictwssFile = RefIctwss
    /\ gdpFile = RefEurostat({1995}, 100)
    /\ uneFile = RefEurostat({1995}, 7)

SpecNorm == InitNorm /\ [][Next]_vars

\* the five sources have been loaded
Loaded == pc \in {"merge", "country", "build", "write", "cleaned", "crashed"}

\* the country a two-letter code stands for: EL and GR are both Greece
CountryOf(code) == IF code \in {"EL", "GR"} THEN "Greece" ELSE code

LoadedCodes ==
    {ifr[i].country_code : i \in 1..Len(ifr)}
    \cup {r.country_code : r \in klems_wide.rows}
    \cup {r.country_code : r \in ictwss_baseline}
    \cup {r.country_code : r \in gdp}
    \cup {r.country_code : r \in une}

\* C10: the ISO2 code of the robot and growth-accounts sources, the ISO3 code
\* and the names of a country resolve to one canonical ISO2 code: DE, DEU and
\* Germany give DE, and EL, GR, GRC and Greece give one single Greece code in a
\* run.
C10_OneCodePerCountry ==
    Loaded =>
        /\ \A c1, c2 \in LoadedCodes : CountryOf(c1) = CountryOf(c2) => c1 = c2
        /\ (\E i \in 1..Len(ictwssFile) : ictwssFile[i].iso3 = "DEU")
              => \E r \in ictwss_baseline : r.country_code = "DE"
        /\ (\E i \in 1..Len(gdpFile) : gdpFile[i].geo = "Germany")
              => \E r \in gdp : r.country_code = "DE"

\* the rows of Greece in the two joined sources, under either code
GreeceInBoth(i, j) ==
    /\ CountryOf(ifrFile[i].country_code) = "Greece"
    /\ CountryOf(klemsFile[j].geo_code) = "Greece"
    /\ ifrFile[i].industry_code \in DOMAIN IFR_TO_NACE
    /\ klemsFile[j].nace_r2_code = IFR_TO_NACE[ifrFile[i].industry_code]
    /\ ifrFile[i].year >= TARGET_FIRST_YEAR /\ ifrFile[i].year <= TARGET_LAST_YEAR
    /\ klemsFile[j].year = Tok(ifrFile[i].year)
    /\ klemsFile[j].var \in vars_needed
    /\ klemsFile[j].value.txt = "num"

\* C11: when the robot file and the growth-accounts file both hold a record of
\* Greece for one industry and year, under EL or under GR in either file, the
\* inner-joined panel has that record, and every row of Greece carries the
\* GDP, the unemployment rate and the institutional values the country-level
\* sources hold for Greece.
C11_GreeceAliases ==
    /\ Merged =>
          \A i \in 1..Len(ifrFile), j \in 1..Len(klemsFile) :
              GreeceInBoth(i, j) =>
                  \E k \in 1..Len(df_merged) :
                      /\ CountryOf(df_merged[k].country_code) = "Greece"
                      /\ df_merged[k].industry_code = ifrFile[i].industry_code
                      /\ df_merged[k].year = ifrFile[i].year
    /\ CountryJoined =>
          \A k \in 1..Len(df) :
              CountryOf(df[k].country_code) = "Greece" =>
                  /\ \A r \in gdp :
                        (CountryOf(r.country_code) = "Greece" /\ r.year = df[k].year)
                        => df[k].gdp = r.gdp
                  /\ \A r \in une :
                        (CountryOf(r.country_code) = "Greece" /\ r.year = df[k].year)
                        => df[k].unemployment = r.unemployment
                  /\ \A r \in ictwss_baseline :
                        CountryOf(r.country_code) = "Greece"
                        => df[k].AdjCov = r.AdjCov /\ df[k].Coord = r.Coord

----------------------------------------------------------------------------
(* Identifiers without a mapping *)

\* Robot files with an industry that is no key of IFR_TO_NACE, institution
\* files with an ISO3 code outside ISO3_TO_ISO2 and GDP and unemployment files
\* with a name outside EUROSTAT_GEO_TO_ISO2, next to rows that resolve.
ResolveIfrRows ==
    {IfrRow("DE", i, y, Num(y - 1990)) : i \in {"28", "99"}, y \in {1994, 1995}}

ResolveIctwssRows ==
    {IctwssRow("DEU", 1995, Tok(a), Tok(4)) : a \in {10, 30}}
    \cup {IctwssRow("GRC", 1995, Tok(20), Tok(4)), IctwssRow("USA", 1995, Tok(50), Tok(1))}

ResolveEurostatRows ==
    {EurostatRow("Germany", Tok(1995), Tok(x)) : x \in {100, 200}}
    \cup {EurostatRow("Narnia", Tok(1995), Tok(100))}

InitResolve ==
    /\ Fresh
    /\ onDisk = SourcePaths \ {GDP_PATH_B}
    /\ cleaned = NoFile
    /\ klemsFile = RefKlems({"DE", "EL"}, {"C28"}, {1995})
    /\ \/ /\ ifrFile \in SeqsUpTo(ResolveIfrRows, MaxIfrRows)
          /\ ictwssFile = RefIctwss \o << IctwssRow("USA", 1995, Tok(50), Tok(1)) >>
          /\ gdpFile = RefEurostat({1995}, 100) \o << EurostatRow("Narnia", Tok(1995), Tok(200)) >>
          /\ uneFile = RefEurostat({1995}, 7)
       \/ /\ ifrFile = TwoCountryIfr
          /\ ictwssFile \in SeqsFrom1(ResolveIctwssRows, MaxCountryRows)
          /\ gdpFile = RefEurostat({1995}, 100)
          /\ uneFile \in SeqsFrom1(ResolveEurostatRows, MaxCountryRows)

SpecResolve == InitResolve /\ [][Next]_vars

\* the rows of each source whose identifiers have an entry in the tables
ResolvedIfr == SelectSeq(ifrFile, LAMBDA r : r.industry_code \in DOMAIN IFR_TO_NACE)

ResolvedIctwss == SelectSeq(ictwssFile, LAMBDA r : r.iso3 \in DOMAIN ISO3_TO_ISO2)

ResolvedGdp == SelectSeq(gdpFile, LAMBDA r : r.geo \in DOMAIN EUROSTAT_GEO_TO_ISO2)

ResolvedUne == SelectSeq(uneFile, LAMBDA r : r.geo \in DOMAIN EUROSTAT_GEO_TO_ISO2)

\* C12: a source row whose country token has no entry in the mapping tables or
\* whose industry token is no key of IFR_TO_NACE contributes no row and no
\* value: the frames built from the sources and the panel that is written are
\* those of the same files without these rows, and no written row carries an
\* industry outside IFR_TO_NACE.
C12_UnresolvedDropped ==
    /\ Loaded =>
          /\ ictwss_baseline = ictwss_frame(ResolvedIctwss)
          /\ gdp = eurostat_frame(ResolvedGdp, "gdp")
          /\ une = eurostat_frame(ResolvedUne, "unemployment")
    /\ pc = "cleaned" =>
          /\ cleaned.rows = clean_rows(ResolvedIfr, klemsFile, ResolvedIctwss,
                                       ResolvedGdp, ResolvedUne)
          /\ \A i \in 1..Len(cleaned.rows) :
                cleaned.rows[i].industry_code \in DOMAIN IFR_TO_NACE

\* a panel written from sources that hold a row with an unknown country token
\* or an unknown industry token
C12_Witness ==
    /\ pc = "cleaned"
    /\ cleaned.rows # << >>
    /\ \/ Len(ResolvedIfr) < Len(ifrFile)
       \/ Len(ResolvedIctwss) < Len(ictwssFile) /\ Len(ResolvedUne) < Len(uneFile)

----------------------------------------------------------------------------
(* The rows the cleaning step keeps *)

\* Growth accounts in which a key lacks some of the three variables the panel
\* reads, and institution, GDP and unemployment files that lack a country or
\* hold a cell without a number.
KeepIfr ==
    << IfrRow("DE", "28", 1994, Num(5)), IfrRow("DE", "28", 1995, Num(6)),
       IfrRow("DE", "28", 1996, Num(7)), IfrRow("EL", "28", 1994, Num(7)),
       IfrRow("EL", "28", 1995, Num(8)) >>

KeepVarSets ==
    {klems_read, {"LAB_QI"}, {"LAB_QI", "VA_PYP"}, {"LAB_QI", "CAP_QI"}, {"VA_PYP", "CAP_QI"}}

KlemsOf(c, y, V) == SetToSeq({KlemsRow(c, "C28", Tok(y), v, Tok(100)) : v \in V})

KeepIctwssFiles ==
    {RefIctwss, << IctwssRow("DEU", 1995, Junk, Tok(4)) >>}

KeepGdpRows ==
    {EurostatRow(g, Tok(1995), x) : g \in {"Germany", "Greece"}, x \in {Tok(100), Junk}}

InitKeep ==
    /\ Fresh
    /\ onDisk = SourcePaths \ {GDP_PATH_B}
    /\ cleaned = NoFile
    /\ ifrFile = KeepIfr
    /\ \E V1 \in KeepVarSets, V2 \in {klems_read, {"LAB_QI", "CAP_QI"}} :
          klemsFile = RefKlems({"DE"}, {"C28"}, {1995})
                      \o KlemsOf("DE", 1996, V1) \o KlemsOf("EL", 1995, V2)
    /\ ictwssFile \in KeepIctwssFiles
    /\ gdpFile \in SeqsFrom1(KeepGdpRows, MaxCountryRows)
    /\ uneFile \in {RefEurostat({1995}, 7), << EurostatRow("Germany", Tok(1995), Tok(7)) >>}

SpecKeep == InitKeep /\ [][Next]_vars

\* row i of the assembled panel is a row of the written panel
IsWritten(i) ==
    \E k \in 1..Len(cleaned.rows) :
        \A f \in DOMAIN df[i] : cleaned.rows[k][f] = df[i][f]

\* C13 as stated: a row of the merged panel whose LAB_QI and ln_robots_lag1 are
\* present is in the written panel, also when VA_PYP, CAP_QI, gdp,
\* unemployment, AdjCov or Coord is missing.
C13_ControlsNeverGate ==
    pc = "cleaned" =>
        \A i \in 1..Len(df) :
            (~df[i].LAB_QI.na /\ df[i].ln_robots_lag1.kind # "nan") => IsWritten(i)

\* C13 as amended: a row of the merged panel whose LAB_QI, ln_robots_lag1,
\* VA_PYP and CAP_QI are present is in the written panel, also when gdp,
\* unemployment, AdjCov or Coord is missing; a row whose VA_PYP or CAP_QI is
\* missing is not written.
C13_CountryLevelNeverGates ==
    pc = "cleaned" =>
        \A i \in 1..Len(df) :
            /\ (/\ ~df[i].LAB_QI.na /\ df[i].ln_robots_lag1.kind # "nan"
                /\ ~df[i].VA_PYP.na /\ ~df[i].CAP_QI.na) => IsWritten(i)
            /\ (df[i].VA_PYP.na \/ df[i].CAP_QI.na) => ~IsWritten(i)

\* a written panel with a row that lacks gdp and the moderators, from a merged
\* panel with a row that has the outcome and the lag but lacks VA_PYP
C13_Witness ==
    /\ pc = "cleaned"
    /\ \E k \in 1..Len(cleaned.rows) :
          /\ cleaned.rows[k].ln_gdp.kind = "nan"
          /\ cleaned.rows[k].adjcov.na /\ cleaned.rows[k].coord.na
    /\ \E i \in 1..Len(df) :
          /\ ~df[i].LAB_QI.na /\ df[i].ln_robots_lag1.kind # "nan"
          /\ df[i].VA_PYP.na

----------------------------------------------------------------------------
(* The gates of the per-industry coverage regressions *)

\* A cleaned_data.csv left by an earlier run of the cleaning step, over source
\* files that give each industry a number of panel years per country: the
\* panel of an industry has counts[k] rows of country k, years 1995 onwards,
\* and country k has the coverage adj[k].
GateCountries ==
    << [code |-> "DE", iso3 |-> "DEU", geo |-> "Germany"],
       [code |-> "EL", iso3 |-> "GRC", geo |-> "Greece"],
       [code |-> "FR", iso3 |-> "FRA", geo |-> "France"],
       [code |-> "IT", iso3 |-> "ITA", geo |-> "Italy"],
       [code |-> "ES", iso3 |-> "ESP", geo |-> "Spain"],
       [code |-> "NL", iso3 |-> "NLD", geo |-> "Netherlands"] >>

GateIfr(g) ==
    Flatten([i \in 1..Len(g.inds) |->
        Flatten([k \in 1..Len(g.inds[i].counts) |->
            IF g.inds[i].counts[k] = 0 THEN << >>
            ELSE [y \in 1..(g.inds[i].counts[k] + 1) |->
                     IfrRow(GateCountries[k].code, g.inds[i].ind,
                            TARGET_FIRST_YEAR - 2 + y, Num(3 + y))]])])

GateKlems(g) ==
    Flatten([i \in 1..Len(g.inds) |->
        Flatten([k \in 1..Len(g.inds[i].counts) |->
            Flatten([y \in 1..g.inds[i].counts[k] |->
                SetToSeq({KlemsRow(GateCountries[k].code, IFR_TO_NACE[g.inds[i].ind],
                                   Tok(TARGET_FIRST_YEAR - 1 + y), v, Tok(100)) :
                            v \in klems_read})])])])

GateIctwss(g) ==
    [k \in 1..Len(g.adj) |->
        IctwssRow(GateCountries[k].iso3, BASE_LAST_YEAR, Tok(g.adj[k]), Tok(3))]

GateEurostat(g, x) ==
    Flatten([k \in 1..Len(g.adj) |->
        [y \in 1..14 |-> EurostatRow(GateCountries[k].geo,
                                     Tok(TARGET_FIRST_YEAR - 1 + y), Tok(x))]])

PriorFile(g) ==
    [written |-> TRUE, cols |-> cols_out,
     rows |-> clean_rows(GateIfr(g), GateKlems(g), GateIctwss(g),
                         GateEurostat(g, 100), GateEurostat(g, 7))]

Full == << 10, 10, 10, 10, 10 >>

FourCountries == << 13, 13, 13, 13 >>

Short == << 10, 10, 10, 10, 9 >>

Uneven == << 13, 12, 13, 12, 1 >>

GateShapes == {Full, FourCountries, Short, Uneven}

\* coverage that differs widely between countries, by one unit around 10, and
\* not at all
GateAdj == {<< 10, 20, 30, 40, 50 >>, << 11, 11, 9, 9, 10 >>, << 10, 10, 10, 10, 10 >>}

GatePriors ==
    {[inds |-> << [ind |-> "28", counts |-> s1] >>, adj |-> a] :
        s1 \in GateShapes, a \in GateAdj}
    \cup {[inds |-> << [ind |-> "26", counts |-> Full], [ind |-> "28", counts |-> s1],
                       [ind |-> "29", counts |-> s2] >>, adj |-> a] :
             s1 \in GateShapes, s2 \in {Full, Short}, a \in GateAdj}

InitGate ==
    /\ Fresh
    /\ onDisk = SourcePaths \ {GDP_PATH_B}
    /\ ifrFile = TwoCountryIfr
    /\ klemsFile = RefKlems({"DE", "EL"}, {"C28"}, {1995})
    /\ ictwssFile = RefIctwss
    /\ gdpFile = RefEurostat({1995}, 100)
    /\ uneFile = RefEurostat({1995}, 7)
    /\ \E g \in GatePriors : cleaned = PriorFile(g)

SpecGate == InitGate /\ [][Next]_vars

\* the subgroup of an industry in the sample of equation 5
Subgroup(ind) == {r \in eq5.rows : r.nace_r2_code = ind}

Countries(ind) == {r.country_code : r \in Subgroup(ind)}

\* the square of the standard deviation of the moderator in the subgroup
ModeratorVar(ind) == RatVar(column_of(Subgroup(ind), "adjcov_centered"))

InList(list, ind) == \E k \in 1..Len(list) : list[k].industry = ind

\* the subgroup was given to run_panelols: it has a result or a failure
Passed(ind) == InList(eq5.results, ind) \/ InList(eq5.failed, ind)

SkippedFor(ind, why) ==
    \E k \in 1..Len(eq5.skipped) :
        eq5.skipped[k].industry = ind /\ eq5.skipped[k].reason = why

\* C14: an industry subgroup with fewer than 5 distinct countries or fewer than
\* 50 rows is never passed to the estimator; a subgroup with exactly 5 distinct
\* countries and exactly 50 rows whose moderator varies (its standard deviation
\* is above 1e-10) is passed to the estimator.
C14_GateThresholds ==
    eq5.ran =>
        \A ind \in industries(eq5.rows) :
            /\ (Cardinality(Countries(ind)) < 5 \/ Cardinality(Subgroup(ind)) < 50)
                  => ~Passed(ind)
            /\ (/\ Cardinality(Countries(ind)) = 5
                /\ Cardinality(Subgroup(ind)) = 50
                /\ ModeratorVar(ind).n > ModeratorVar(ind).d)
                  => Passed(ind)

\* a run of equation 5 over a subgroup of 5 countries and 50 rows that was
\* passed on, one of 4 countries and one of 49 rows that were not
C14_Witness ==
    /\ eq5.ran
    /\ \E a, b, c \in industries(eq5.rows) :
          /\ Cardinality(Countries(a)) = 5 /\ Cardinality(Subgroup(a)) = 50 /\ Passed(a)
          /\ Cardinality(Countries(b)) = 4 /\ Cardinality(Subgroup(b)) >= 50 /\ ~Passed(b)
          /\ Cardinality(Countries(c)) = 5 /\ Cardinality(Subgroup(c)) = 49 /\ ~Passed(c)

\* C15 as stated: a subgroup is passed to the estimator only if the standard
\* deviation of adjcov_centered exceeds 1e-10, and a subgroup whose standard
\* deviation is 1e-10 or less is skipped with the reason 'no variation in
\* moderator'.
C15_StdAboveEps ==
    eq5.ran =>
        \A ind \in industries(eq5.rows) :
            /\ Passed(ind) => ModeratorVar(ind).n > ModeratorVar(ind).d
            /\ (~ModeratorVar(ind).na /\ ModeratorVar(ind).n <= ModeratorVar(ind).d)
                  => SkippedFor(ind, "no variation in moderator")

\* C15 as amended: a subgroup is passed to the estimator only if the standard
\* deviation of adjcov_centered is at least 1e-10, and a subgroup of at least 5
\* countries and 50 rows whose standard deviation is below 1e-10 is skipped
\* with the reason 'no variation in moderator'.
C15_StdNotBelowEps ==
    eq5.ran =>
        \A ind \in industries(eq5.rows) :
            /\ Passed(ind) => ModeratorVar(ind).n >= ModeratorVar(ind).d
            /\ (/\ Cardinality(Countries(ind)) >= 5
                /\ Cardinality(Subgroup(ind)) >= 50
                /\ ~ModeratorVar(ind).na
                /\ ModeratorVar(ind).n < ModeratorVar(ind).d)
                  => SkippedFor(ind, "no variation in moderator")

\* a run of equation 5 that passed on a subgroup whose standard deviation is
\* 1e-10 and skipped one whose standard deviation is below 1e-10 for lack of
\* variation
C15_Witness ==
    /\ eq5.ran
    /\ \E a \in industries(eq5.rows) :
          Passed(a) /\ ~ModeratorVar(a).na /\ ModeratorVar(a).n = ModeratorVar(a).d
    /\ \E b \in industries(eq5.rows) :
          /\ ~ModeratorVar(b).na /\ ModeratorVar(b).n < ModeratorVar(b).d
          /\ SkippedFor(b, "no variation in moderator")

\* the number of entries of the three lists that name the industry
Entries(ind) ==
    Cardinality({k \in 1..Len(eq5.results) : eq5.results[k].industry = ind})
    + Cardinality({k \in 1..Len(eq5.skipped) : eq5.skipped[k].industry = ind})
    + Cardinality({k \in 1..Len(eq5.failed) : eq5.failed[k].industry = ind})

MeetsGates(ind) ==
    /\ Cardinality(Countries(ind)) >= MIN_COUNTRIES
    /\ Cardinality(Subgroup(ind)) >= MIN_OBS
    /\ ModeratorVar(ind).n >= ModeratorVar(ind).d

\* C17: an industry for which the estimator raises is recorded in failed with
\* the exception text and has no result row, and the loop goes on: every other
\* industry that meets the gates has its result row, the result rows being
\* those of the run in which the estimator raises for no industry, less the
\* rows of the failed industries.
C17_FailureIsLocal ==
    eq5.ran =>
        /\ \A k \in 1..Len(eq5.failed) :
              /\ eq5.failed[k].reason \in ExceptionTexts
              /\ ~InList(eq5.results, eq5.failed[k].industry)
        /\ \A ind \in industries(eq5.rows) :
              (MeetsGates(ind) /\ ~InList(eq5.failed, ind)) => InList(eq5.results, ind)
        /\ eq5.results =
              SelectSeq(for_ind(eq5.rows, sorted_industries(eq5.rows), << >>, Eq5Start).results,
                        LAMBDA row : ~InList(eq5.failed, row.industry))

\* a run of equation 5 in which the estimator raised for one industry and
\* gave a result for an industry that comes later in the loop
C17_Witness ==
    /\ eq5.ran
    /\ \E i, j \in 1..Len(NACE_ORDER) :
          /\ i < j
          /\ InList(eq5.failed, NACE_ORDER[i])
          /\ InList(eq5.results, NACE_ORDER[j])

----------------------------------------------------------------------------
(* Missing source files *)

\* a cleaned_data.csv written by an earlier run over other robot data
EarlierFile ==
    [written |-> TRUE, cols |-> cols_out,
     rows |-> clean_rows(TwoCountryIfr, RefKlems({"DE", "EL"}, {"C28"}, {1995}),
                         RefIctwss, RefEurostat({1995}, 100), RefEurostat({1995}, 7))]

\* Any of the six file names may be absent from data/; the files that exist
\* hold two countries over one or two panel years.
InitMissing ==
    /\ Fresh
    /\ onDisk \in SUBSET SourcePaths
    /\ ifrFile \in {TwoCountryIfr, KeepIfr}
    /\ klemsFile = RefKlems({"DE", "EL"}, {"C28"}, {1995, 1996})
    /\ ictwssFile = RefIctwss
    /\ gdpFile = RefEurostat({1995, 1996}, 100)
    /\ uneFile = RefEurostat({1995, 1996}, 7)
    /\ cleaned \in {NoFile, EarlierFile}

SpecMissing == InitMissing /\ [][Next]_vars

RequiredOnDisk == IFR_PATH \in onDisk /\ KLEMS_PATH \in onDisk

GdpOnDisk == GDP_PATH_A \in onDisk \/ GDP_PATH_B \in onDisk

\* C18: when only optional source files (GDP, unemployment, institutions) are
\* missing, the cleaning step is not halted: it ends by writing the panel, in
\* which the columns of a missing source are missing on every row.
C18_OptionalSourceMissing ==
    /\ RequiredOnDisk => pc # "FileNotFoundError"
    /\ pc = "cleaned" =>
          \A i \in 1..Len(cleaned.rows) :
              /\ ICTWSS_PATH \notin onDisk =>
                    cleaned.rows[i].adjcov.na /\ cleaned.rows[i].coord.na
              /\ ~GdpOnDisk => cleaned.rows[i].ln_gdp.kind = "nan"
              /\ UNE_PATH \notin onDisk => cleaned.rows[i].unemployment.na

\* C19: when the robot file or the growth-accounts file is missing, the
\* cleaning step ends with FileNotFoundError at the load of that file, before
\* any later step, and no step of the run writes or changes cleaned_data.csv.
C19_RequiredSourceAborts ==
    /\ [](IFR_PATH \notin onDisk => pc \in {"idle", "models", "FileNotFoundError"})
    /\ [](KLEMS_PATH \notin onDisk =>
             pc \in {"idle", "klems", "models", "FileNotFoundError"})
    /\ [][~RequiredOnDisk => cleaned' = cleaned]_vars

\* a run that ended with FileNotFoundError for the growth-accounts file after
\* the robot file was read, the earlier cleaned_data.csv still in place
C19_Witness ==
    /\ pc = "FileNotFoundError"
    /\ IFR_PATH \in onDisk
    /\ KLEMS_PATH \notin onDisk
    /\ ifr # << >>
    /\ cleaned = EarlierFile

----------------------------------------------------------------------------
(* The institutional baseline *)

\* Institution files with several years of a country inside and outside the
\* baseline window and values that change from year to year, under a robot
\* file of two countries, two industries and two panel years.
BaselineIfr ==
    << IfrRow("DE", "28", 1994, Num(5)), IfrRow("DE", "28", 1995, Num(6)),
       IfrRow("DE", "28", 1996, Num(7)), IfrRow("DE", "29", 1994, Num(5)),
       IfrRow("DE", "29", 1995, Num(6)), IfrRow("EL", "28", 1994, Num(7)),
       IfrRow("EL", "28", 1995, Num(8)) >>

BaselineIctwssRows ==
    {IctwssRow(c, y, Tok(v[1]), Tok(v[2])) :
        c \in {"DEU", "GRC"}, y \in {1990, 1995, 1996}, v \in {<< 10, 2 >>, << 30, 4 >>}}

InitBaseline ==
    /\ Fresh
    /\ onDisk = SourcePaths \ {GDP_PATH_B}
    /\ cleaned = NoFile
    /\ ifrFile = BaselineIfr
    /\ klemsFile = RefKlems({"DE", "EL"}, {"C28", "C29-C30"}, {1995, 1996})
    /\ ictwssFile \in SeqsFrom1(BaselineIctwssRows, MaxCountryRows)
    /\ gdpFile = RefEurostat({1995, 1996}, 100)
    /\ uneFile = RefEurostat({1995, 1996}, 7)

SpecBaseline == InitBaseline /\ [][Next]_vars

\* C20: in the cleaned panel all rows of one country, of every year and every
\* industry, carry the same adjcov and the same coord.
C20_TimeInvariantInstitutions ==
    cleaned.written =>
        \A i, j \in 1..Len(cleaned.rows) :
            cleaned.rows[i].country_code = cleaned.rows[j].country_code =>
                /\ cleaned.rows[i].adjcov = cleaned.rows[j].adjcov
                /\ cleaned.rows[i].coord = cleaned.rows[j].coord

\* a written panel with rows of one country in two years and in two
\* industries, from an institutions file whose values for that country differ
\* between two years of the baseline window
C20_Witness ==
    /\ cleaned.written
    /\ \E i, j, k \in 1..Len(cleaned.rows) :
          /\ cleaned.rows[i].country_code = "DE"
          /\ cleaned.rows[j].country_code = "DE"
          /\ cleaned.rows[k].country_code = "DE"
          /\ cleaned.rows[i].year # cleaned.rows[j].year
          /\ cleaned.rows[i].industry_code # cleaned.rows[k].industry_code
          /\ ~cleaned.rows[i].adjcov.na
    /\ \E a, b \in 1..Len(ictwssFile) :
          /\ ictwssFile[a].iso3 = "DEU" /\ ictwssFile[b].iso3 = "DEU"
          /\ ictwssFile[a].year = 1990 /\ ictwssFile[b].year = 1995
          /\ ictwssFile[a].AdjCov # ictwssFile[b].AdjCov

\* the mean of the numeric cells of column col in the rows of the institutions
\* file of country c with a year from the year first to BASE_LAST_YEAR
WindowMean(c, first, col) ==
    LET rows == SelectSeq(ictwssFile, LAMBDA r :
                    /\ map_table(ISO3_TO_ISO2, r.iso3) = c
                    /\ r.year >= first /\ r.year <= BASE_LAST_YEAR)
    IN  safe_mean(MapSeq(rows, LAMBDA r : r[col]))

\* C21: adjcov and coord of every row of the cleaned panel are the means of the
\* country's numeric AdjCov and Coord cells of the years 1993 to 1995, the
\* window of the data check, and missing when the country has none there.
C21_BaselineWindow1993 ==
    cleaned.written =>
        \A i \in 1..Len(cleaned.rows) :
            /\ cleaned.rows[i].adjcov =
                  WindowMean(cleaned.rows[i].country_code, DATACHECK_BASE_FIRST_YEAR, "AdjCov")
            /\ cleaned.rows[i].coord =
                  WindowMean(cleaned.rows[i].country_code, DATACHECK_BASE_FIRST_YEAR, "Coord")

----------------------------------------------------------------------------
(* The coordination indicator *)

\* Robot rows of three countries; institution files in which France has no
\* numeric Coord and Germany and Greece have none, one or two rows with Coord
\* 3, 4 or 5 (so that a mean of 3.5 occurs); and a cleaned_data.csv of an
\* earlier run over the same sources without the high_coord column, the case
\* lines 49-51 of equation 2 provide for.
CoordIfr ==
    TwoCountryIfr \o << IfrRow("FR", "28", 1994, Num(5)), IfrRow("FR", "28", 1995, Num(6)) >>

CoordIctwssRows ==
    {IctwssRow(c, 1995, Tok(20), Tok(k)) : c \in {"DEU", "GRC"}, k \in {3, 4, 5}}

CoordLegacyFile(fi, fk, fc, fg, fu) ==
    [written |-> TRUE,
     cols |-> cols_out \ {"high_coord"},
     rows |-> MapSeq(clean_rows(fi, fk, fc, fg, fu),
                     LAMBDA r : [f \in DOMAIN r \ {"high_coord"} |-> r[f]])]

InitCoord ==
    /\ Fresh
    /\ onDisk = SourcePaths \ {GDP_PATH_B}
    /\ ifrFile = CoordIfr
    /\ klemsFile = RefKlems({"DE", "EL", "FR"}, {"C28"}, {1995})
    /\ \E tail \in SeqsUpTo(CoordIctwssRows, MaxCountryRows) :
          ictwssFile = << IctwssRow("FRA", 1995, Tok(20), Junk) >> \o tail
    /\ gdpFile = RefEurostat({1995}, 100)
    /\ uneFile = RefEurostat({1995}, 7)
    /\ cleaned \in {NoFile,
                    CoordLegacyFile(ifrFile, klemsFile, ictwssFile, gdpFile, uneFile)}

SpecCoord == InitCoord /\ [][Next]_vars

\* high_coord of a row is what the claim says for its coord
HighCoordRight(r) ==
    IF r.coord.na THEN r.high_coord.na
    ELSE /\ ~r.high_coord.na
         /\ r.high_coord.v = (IF r.coord.n >= HIGH_COORD * r.coord.d THEN 1 ELSE 0)

\* C22: high_coord is 1 for coord >= 4, 0 for a coord below 4 and missing (not
\* 0) for a missing coord, on every row the cleaning step builds and writes
\* and on every row of the sample of the equation 2 model step when it
\* computes the column itself.
C22_HighCoord ==
    /\ pc \in {"write", "cleaned"} => \A i \in 1..Len(df) : HighCoordRight(df[i])
    /\ pc = "cleaned" => \A i \in 1..Len(cleaned.rows) : HighCoordRight(cleaned.rows[i])
    /\ (eq2.ran /\ "high_coord" \notin eq2.seen.cols) =>
          \A r \in eq2.rows : HighCoordRight(r)

\* the equation 2 model step has computed the column over a file without it
\* that holds a country with coord 4 or more, one below 4 and one without
\* coord, and the rows of the first two are in its sample with 1 and 0
C22_Witness ==
    /\ eq2.ran
    /\ "high_coord" \notin eq2.seen.cols
    /\ \E i \in 1..Len(eq2.seen.rows) : eq2.seen.rows[i].coord.na
    /\ \E r \in eq2.rows : r.high_coord = Num(1)
    /\ \E r \in eq2.rows : r.high_coord = Num(0)

----------------------------------------------------------------------------
(* The crosswalk aggregation *)

\* Weight files with four industries of replaceability 10, 20, 10 and 20, each
\* with weight 0, 1 or 3, the first with or without leading blanks, and an
\* "n/a" row; and crosswalks that send all four to one division, two to each of
\* two divisions, one to two divisions, or some outside manufacturing or to a
\* code that is no number.
CrosswalkWeightRow(n, x, blanks, w) ==
    [ind1990 |-> Ind(n, blanks), replaceability_ind |-> Num(x), w_ind |-> w]

CrosswalkWeightFiles ==
    {<< CrosswalkWeightRow("100", 10, b, w[1]), CrosswalkWeightRow("110", 20, FALSE, w[2]),
        CrosswalkWeightRow("n/a", 99, FALSE, 5),
        CrosswalkWeightRow("120", 10, FALSE, w[3]), CrosswalkWeightRow("130", 20, FALSE, w[4]) >> :
        w \in [1..4 -> {0, 1, 3}], b \in BOOLEAN}

CrosswalkRow(n, k) == [ind1990 |-> Ind(n, FALSE), nace2 |-> k]

CrosswalkFiles ==
    {<< CrosswalkRow("n/a", Tok(10)), CrosswalkRow("100", Tok(10)), CrosswalkRow("110", Tok(10)),
        CrosswalkRow("120", Tok(10)), CrosswalkRow("130", Tok(10)) >>,
     << CrosswalkRow("n/a", Tok(10)), CrosswalkRow("100", Tok(10)), CrosswalkRow("110", Tok(10)),
        CrosswalkRow("120", Tok(11)), CrosswalkRow("130", Tok(11)) >>,
     << CrosswalkRow("100", Tok(10)), CrosswalkRow("100", Tok(11)), CrosswalkRow("110", Tok(11)),
        CrosswalkRow("120", Tok(33)) >>,
     << CrosswalkRow("100", Tok(10)), CrosswalkRow("110", Tok(10)), CrosswalkRow("120", Tok(34)),
        CrosswalkRow("130", Junk), CrosswalkRow("110", Tok(9)) >>}

InitCrosswalk ==
    /\ FreshState
    /\ onDisk = SourcePaths \ {GDP_PATH_B}
    /\ cleaned = NoFile
    /\ ifrFile = TwoCountryIfr
    /\ klemsFile = RefKlems({"DE", "EL"}, {"C28"}, {1995})
    /\ ictwssFile = RefIctwss
    /\ gdpFile = RefEurostat({1995}, 100)
    /\ uneFile = RefEurostat({1995}, 7)
    /\ weightsFile \in CrosswalkWeightFiles
    /\ crosswalkFile \in CrosswalkFiles
    /\ stockFile = RefStock

SpecCrosswalk == InitCrosswalk /\ [][Next]_vars

\* the sum of the values of a function over its domain
RECURSIVE SumFn(_)
SumFn(f) ==
    IF DOMAIN f = {} THEN 0
    ELSE LET x == CHOOSE y \in DOMAIN f : TRUE
         IN  f[x] + SumFn([y \in DOMAIN f \ {x} |-> f[y]])

\* the pairs of a weight row and a crosswalk row of one industry that is sent
\* to division k
Sources(k) ==
    {p \in (1..Len(weightsFile)) \X (1..Len(crosswalkFile)) :
        /\ weightsFile[p[1]].ind1990.text = crosswalkFile[p[2]].ind1990.text
        /\ weightsFile[p[1]].ind1990.text \notin NA_INDUSTRIES
        /\ crosswalkFile[p[2]].nace2 = Tok(k)}

\* C23: the weight written for a manufacturing division is sum(w * x) / sum(w)
\* over the industries the crosswalk sends to it, and the plain mean of their x
\* when the weights sum to zero; every division with such an industry has
\* one row.
C23_WeightedAverage ==
    weights_nace2.written =>
        /\ \A k \in NACE2_FIRST..NACE2_LAST :
              Cardinality({i \in 1..Len(weights_nace2.rows) : weights_nace2.rows[i].nace2 = k})
                  = (IF Sources(k) = {} THEN 0 ELSE 1)
        /\ \A i \in 1..Len(weights_nace2.rows) :
              LET o   == weights_nace2.rows[i].auto_weight_nace2
                  src == Sources(weights_nace2.rows[i].nace2)
                  sw  == SumFn([p \in src |-> weightsFile[p[1]].w_ind])
                  swx == SumFn([p \in src |-> weightsFile[p[1]].w_ind
                                               * weightsFile[p[1]].replaceability_ind.v])
                  sx  == SumFn([p \in src |-> weightsFile[p[1]].replaceability_ind.v])
              IN  /\ ~o.na
                  /\ sw # 0 => o.n * sw = swx * o.d
                  /\ sw = 0 => o.n * Cardinality(src) = sx * o.d

\* one division is made of (x = 10, w = 1) and (x = 20, w = 3) and has 17.5,
\* another of x = 10 and x = 20 with both weights zero and has 15
C23_Witness ==
    /\ weights_nace2.written
    /\ \E i, j \in 1..Len(weights_nace2.rows) :
          /\ weights_nace2.rows[i].auto_weight_nace2 = Rat(35, 2)
          /\ weights_nace2.rows[i].w_ind_sum = 4
          /\ weights_nace2.rows[i].n_sources = 2
          /\ weights_nace2.rows[j].auto_weight_nace2 = Rat(15, 1)
          /\ weights_nace2.rows[j].w_ind_sum = 0
          /\ weights_nace2.rows[j].n_sources = 2

----------------------------------------------------------------------------
(* The shift-share panel *)

MaxStockRows == 2

\* Stock sheets with the year columns 2004 to 2006 or with none, whose first
\* row below the header is empty or holds data, followed by rows of Germany and
\* Sweden (with a number in every year, or with none in 2005), of a region
\* whose label has a "-" but no ISO2 prefix and of an aggregate without "-",
\* rows repeated and in any order; and weight files of four industries, of
\* these with an "n/a" row, a row without weight and a row without industry,
\* and of one industry.
StockYears == {<< 2004, 2005, 2006 >>, << >>}

StockRow(label, ys, gap) ==
    [label |-> label,
     stock |-> [y \in {ys[i] : i \in 1..Len(ys)} |->
                   IF y \in gap THEN Junk ELSE Tok(y - 2000)]]

StockRows(ys) ==
    {StockRow(l, ys, gap) :
        l \in {Label("DE-Germany", "DE", TRUE), Label("SE-Sweden", "SE", TRUE)},
        gap \in {{}, {2005}}}
    \cup {StockRow(Label("Asia-Pacific", "Asia", TRUE), ys, {}),
          StockRow(Label("World", "World", FALSE), ys, {})}

FirstStockRows(ys) ==
    {StockRow(Label(NoStr, NoStr, FALSE), ys, {2004, 2005, 2006}),
     StockRow(Label("DE-Germany", "DE", TRUE), ys, {})}

ShareWeightRow(n, x) == [ind1990 |-> Ind(n, FALSE), replaceability_ind |-> x, w_ind |-> 1]

FourIndustries ==
    << ShareWeightRow("100", Num(10)), ShareWeightRow("110", Num(20)),
       ShareWeightRow("120", Num(30)), ShareWeightRow("130", Num(0)) >>

ShareWeightFiles ==
    {FourIndustries,
     << ShareWeightRow("n/a", Num(99)), ShareWeightRow("100", NA), ShareWeightRow(NoStr, Num(5)) >>
         \o FourIndustries,
     << [ind1990 |-> Ind("110", TRUE), replaceability_ind |-> Num(20), w_ind |-> 1] >>}

InitShare ==
    /\ FreshState
    /\ onDisk = SourcePaths \ {GDP_PATH_B}
    /\ cleaned = NoFile
    /\ ifrFile = TwoCountryIfr
    /\ klemsFile = RefKlems({"DE", "EL"}, {"C28"}, {1995})
    /\ ictwssFile = RefIctwss
    /\ gdpFile = RefEurostat({1995}, 100)
    /\ uneFile = RefEurostat({1995}, 7)
    /\ weightsFile \in ShareWeightFiles
    /\ crosswalkFile = RefCrosswalk
    /\ \E ys \in StockYears :
          \E first \in FirstStockRows(ys), tail \in SeqsUpTo(StockRows(ys), MaxStockRows) :
              stockFile = [headers |-> ys, rows |-> << first >> \o tail]

SpecShare == InitShare /\ [][Next]_vars

\* the (country, year) robot-stock observations of the sheet: the numbers in
\* the year columns of the rows after the first whose label has a "-", under
\* the ISO2 prefix of the label if it has one and under the label if not
Observations ==
    {[country |-> IF stockFile.rows[i].label.head \in ISO2_SHAPED
                  THEN stockFile.rows[i].label.head ELSE stockFile.rows[i].label.text,
      year |-> y,
      robot_stock |-> Num(stockFile.rows[i].stock[y].v)] :
        <<i, y>> \in {q \in (2..Len(stockFile.rows)) \X {stockFile.headers[h] : h \in 1..Len(stockFile.headers)} :
                        /\ stockFile.rows[q[1]].label.dash
                        /\ stockFile.rows[q[1]].stock[q[2]].txt = "num"}}

\* the industry weights of the weight file: its rows with an industry that is
\* not "n/a" and a weight
IndustryWeights ==
    {[industry_id |-> weightsFile[i].ind1990, auto_weight |-> weightsFile[i].replaceability_ind] :
        i \in {j \in 1..Len(weightsFile) :
                 /\ weightsFile[j].ind1990.text \notin NA_INDUSTRIES \cup {NoStr}
                 /\ ~weightsFile[j].replaceability_ind.na}}

----------------------------------------------------------------------------
(* The diagnostics pass *)

\* the file as read_csv loads it
LoadedPanel == [cols |-> cleaned.cols, rows |-> cleaned.rows]

\* C25: the frame a model step works on after the diagnostics pass is the
\* frame that was loaded from cleaned_data.csv: same columns, same rows with
\* the same values in the same order.
C25_DiagnosticsReadOnly ==
    /\ eq2.ran => eq2.seen = LoadedPanel
    /\ eq3.ran => eq3.seen = LoadedPanel
    /\ eq5.ran => eq5.seen = LoadedPanel

\* the coverage model step has run after diagnostics over a file with a row
\* that the coordination sample of the diagnostics drops and one that it keeps
C25_Witness ==
    /\ eq3.ran
    /\ \E i \in 1..Len(eq3.seen.rows) : eq3.seen.rows[i].coord.na
    /\ \E i \in 1..Len(eq3.seen.rows) : ~eq3.seen.rows[i].coord.na

----------------------------------------------------------------------------
(* The driver *)

\* the script at position k of the list has been started in this run
Started(k) ==
    CASE k = 1 -> dc.ran
      [] k = 2 -> pc # "idle"
      [] k = 3 -> eq1.ran
      [] k = 4 -> eq2.ran
      [] k = 5 -> eq3.ran
      [] k = 6 -> eq4.ran
      [] k = 7 -> eq5.ran

\* what runall logs when every script ends with status 0
FullLog ==
    [i \in 1..(2 * Len(scripts) + 1) |->
        IF i = 2 * Len(scripts) + 1 THEN ALL_DONE
        ELSE IF i % 2 = 1 THEN "Running " \o scripts[(i + 1) \div 2]
        ELSE "Completed " \o scripts[i \div 2]]

\* C27: under runall the scripts are started one at a time in the order of the
\* list, a script only after all before it have ended with status 0, none
\* after the first that ended with another status, and the closing message is
\* logged only when all seven have ended with status 0.
C27_RunallOrder ==
    ra.state # "off" =>
        /\ Len(ra.log) <= Len(FullLog)
        /\ ra.log = SubSeq(FullLog, 1, Len(ra.log))
        /\ \A k \in 1..Len(scripts) :
              Started(k) =>
                  /\ k <= ra.at
                  /\ Len(ra.exits) >= k - 1
                  /\ \A i \in 1..(k - 1) : ra.exits[i] = 0
        /\ (\E i \in 1..Len(ra.exits) : ra.exits[i] # 0) =>
              /\ ra.state = "failed"
              /\ ra.exits[Len(ra.exits)] # 0
              /\ Len(ra.exits) = ra.at
        /\ (\E i \in 1..Len(ra.log) : ra.log[i] = ALL_DONE) =>
              /\ Len(ra.exits) = Len(scripts)
              /\ \A i \in 1..Len(scripts) : ra.exits[i] = 0 /\ Started(i)

\* runall has stopped at the fourth script, which ended with status 1 after
\* three that ended with 0, and the later ones have not been started
C27_Witness ==
    /\ ra.state = "failed"
    /\ ra.exits = << 0, 0, 0, 1 >>
    /\ Started(4)
    /\ ~Started(5) /\ ~Started(6) /\ ~Started(7)
    /\ ra.log[Len(ra.log)] = "Running " \o scripts[4]

----------------------------------------------------------------------------
(* The usability lists of the data check *)

\* A cleaned_data.csv left by an earlier run over source files that give one
\* or three industries 10 panel years in each of five countries (or 9 in the
\* fifth), with a GDP file that is complete or lacks the first panel year of
\* the fifth country.
GapEurostat(g, x) ==
    SelectSeq(GateEurostat(g, x), LAMBDA r :
        ~(r.geo = GateCountries[5].geo /\ r.TIME_PERIOD = Tok(TARGET_FIRST_YEAR)))

GapFile(g) ==
    [written |-> TRUE, cols |-> cols_out,
     rows |-> clean_rows(GateIfr(g), GateKlems(g), GateIctwss(g),
                         GapEurostat(g, 100), GateEurostat(g, 7))]

UsablePriors ==
    {[inds |-> << [ind |-> "28", counts |-> s] >>, adj |-> << 10, 20, 30, 40, 50 >>] :
        s \in {Full, Short}}

InitUsable ==
    /\ Fresh
    /\ onDisk = SourcePaths \ {GDP_PATH_B}
    /\ ifrFile = TwoCountryIfr
    /\ klemsFile = RefKlems({"DE", "EL"}, {"C28"}, {1995})
    /\ ictwssFile = RefIctwss
    /\ gdpFile = RefEurostat({1995}, 100)
    /\ uneFile = RefEurostat({1995}, 7)
    /\ \E g \in UsablePriors : cleaned \in {PriorFile(g), GapFile(g)}

SpecUsable == InitUsable /\ [][Next]_vars

\* C29: when the data check and the equation 5 model step have been run by
\* hand on the same cleaned_data.csv, the industries the data check lists as
\* usable in Equation 5 are the industries the model step does not skip.
C29_UsableListMatchesGate ==
    (ra.state = "off" /\ dc.ran /\ dc.read_cleaned /\ eq5.ran) =>
        {dc.usable_eq5[i] : i \in 1..Len(dc.usable_eq5)}
            = {ind \in industries(eq5.rows) : Passed(ind)}

----------------------------------------------------------------------------
(* The readers of cleaned_data.csv under runall *)

\* C28: in a runall invocation the data check and every regression script run
\* when the cleaning step of that invocation has written cleaned_data.csv.
C28_ReadersAfterCleaning ==
    ra.state # "off" =>
        /\ dc.ran => dc.when = "cleaned"
        /\ (eq1.ran \/ eq2.ran \/ eq3.ran \/ eq4.ran \/ eq5.ran) => pc = "cleaned"

----------------------------------------------------------------------------
(* The summary of the data check *)

\* C30: the data check reports 'No critical gaps identified' only when the
\* ICTWSS, IFR, KLEMS growth, GDP and unemployment sources were all loaded.
C30_NoGapsNeedsAllSources ==
    (dc.ran /\ dc.no_gaps) =>
        /\ dc.loaded.ictwss
        /\ dc.loaded.ifr
        /\ dc.loaded.klems
        /\ dc.loaded.gdp
        /\ dc.loaded.une

====
